---- MODULE Spec2Model ----
(***************************************************************************)
(* A model of codedoc's source scanner and documentation-tree builder      *)
(* (src/codedoc.c): the character source (filebuf_getc, filebuf_ungetc),   *)
(* the token accumulator (stringbuf_t), the comment normalizer             *)
(* (update_comment),                                                       *)
(* the tree insert/merge (sort_node), add_variable and the scan_file       *)
(* finite state machine, driven by main's loop over its source files.      *)
(*                                                                         *)
(* Strings are sequences of bytes (0..255), as in C.  The documentation    *)
(* tree is a heap of Mini-XML element nodes addressed by index; text and   *)
(* opaque children are kept in their element (toks, opq).                  *)
(***************************************************************************)
EXTENDS Integers, Sequences, FiniteSets, TLC

VARIABLES heap,      \* the Mini-XML nodes, heap[1] is the <codedoc> root
          file,      \* filebuf_t: data (bytes of the file), pos, ch (saved character)
          stack,     \* scan_file invocations, innermost last
          mainpc,    \* main(): which argv entry is being scanned, and whether it is done
          body,      \* the strings handed to mmdLoadString(*body, ...)
          hist,      \* history: what each finished scan left in the tree
          sortlog    \* SpecSort only: the sort_node calls made so far, and the replay position

vars == <<heap, file, stack, mainpc, body, hist, sortlog>>

\* The element of a set that has one element.
Only(S) == CHOOSE x \in S : TRUE

(***************************************************************************)
(* C strings                                                               *)
(***************************************************************************)
PrintableLo == " !\"#$%&'()*+,-./0123456789:;<=>?@ABCDEFGHIJKLMNOPQRSTUVWXYZ[\\]^_"

PrintableHi == "abcdefghijklmnopqrstuvwxyz{|}~"

OrdMap ==
  [c \in {SubSeq(PrintableLo, i, i) : i \in 1..Len(PrintableLo)}
         \cup {SubSeq(PrintableHi, i, i) : i \in 1..Len(PrintableHi)}
         \cup {"\n", "\t"} |->
     IF c = "\n" THEN 10
     ELSE IF c = "\t" THEN 9
     ELSE IF \E i \in 1..Len(PrintableLo) : SubSeq(PrintableLo, i, i) = c
          THEN 31 + (CHOOSE i \in 1..Len(PrintableLo) : SubSeq(PrintableLo, i, i) = c)
          ELSE 96 + (CHOOSE i \in 1..Len(PrintableHi) : SubSeq(PrintableHi, i, i) = c)]

\* The bytes of a string literal.
Str(s) == [i \in 1..Len(s) |-> OrdMap[SubSeq(s, i, i)]]

\* The byte of a character literal.
Chr(c) == OrdMap[c]

EOF == -1

RECURSIVE StrCmp(_, _)
\* strcmp(a, b): negative, zero or positive; bytes compare as unsigned char.
StrCmp(a, b) ==
  IF a = <<>> /\ b = <<>> THEN 0
  ELSE IF a = <<>> THEN -1
  ELSE IF b = <<>> THEN 1
  ELSE IF Head(a) # Head(b) THEN Head(a) - Head(b)
  ELSE StrCmp(Tail(a), Tail(b))

\* strncmp(s, p, strlen(p)) == 0
HasPrefix(s, p) == Len(s) >= Len(p) /\ SubSeq(s, 1, Len(p)) = p

\* strstr(s, p) != NULL
StrStr(s, p) == \E i \in 1..(Len(s) - Len(p) + 1) : SubSeq(s, i, i + Len(p) - 1) = p

\* isspace(), isalnum(), isdigit() in the C locale
\* s[0] of a C string (0 for the empty string)
FirstChar(s) == IF s = <<>> THEN 0 ELSE s[1]

IsSpace(c) == c \in {32, 9, 10, 11, 12, 13}

IsDigit(c) == c \in 48..57

IsAlnum(c) == c \in (48..57) \cup (65..90) \cup (97..122)

(***************************************************************************)
(* Mini-XML nodes                                                          *)
(***************************************************************************)
\* An attribute, or the list of children of a kind, that is absent.
None == <<>>

\* The <codedoc> element made by new_documentation().
RootId == 1

NewNodeRec(elem, parent) ==
  [elem |-> elem, name |-> None, scope |-> None, direction |-> None,
   dflt |-> None, parentattr |-> None, parent |-> parent, kids |-> <<>>,
   toks |-> <<>>, opq |-> <<>>]

new_documentation == <<NewNodeRec("codedoc", 0)>>

\* mxmlNewElement(parent, elem): the new node is the last child of parent.
\* Its index is Len(h) + 1.
mxmlNewElement(h, parent, elem) ==
  LET id == Len(h) + 1
      h1 == Append(h, NewNodeRec(elem, parent))
  IN  IF parent = 0 THEN h1
      ELSE [h1 EXCEPT ![parent].kids = Append(@, id)]

SeqWithout(s, x) == SelectSeq(s, LAMBDA y : y # x)

RECURSIVE Descendants(_, _)
Descendants(h, id) ==
  {id} \cup UNION {Descendants(h, h[id].kids[i]) : i \in 1..Len(h[id].kids)}

\* mxmlRemove(node): unlink a node from its parent.
mxmlRemove(h, id) ==
  IF h[id].parent = 0 THEN h
  ELSE [h EXCEPT ![h[id].parent].kids = SeqWithout(@, id), ![id].parent = 0]

RECURSIVE FreeAll(_, _)
\* free() of every node of a set.
FreeAll(h, dead) ==
  IF dead = {} THEN h
  ELSE LET d == CHOOSE x \in dead : TRUE
       IN  FreeAll([h EXCEPT ![d] = NewNodeRec("FREE", 0)], dead \ {d})

\* mxmlDelete(node): unlink the node and free it and everything below it.
mxmlDelete(h, id) ==
  IF id = 0 THEN h
  ELSE FreeAll(mxmlRemove(h, id), Descendants(h, id))

IndexOf(s, x) == CHOOSE i \in 1..Len(s) : s[i] = x

InsertAt(s, i, x) == SubSeq(s, 1, i - 1) \o <<x>> \o SubSeq(s, i, Len(s))

\* mxmlAdd(parent, MXML_ADD_BEFORE, child, node)
mxmlAddBefore(h, parent, child, node) ==
  LET h1 == mxmlRemove(h, node)
  IN  [h1 EXCEPT ![parent].kids = InsertAt(@, IndexOf(@, child), node),
                 ![node].parent = parent]

\* mxmlAdd(parent, MXML_ADD_AFTER, MXML_ADD_TO_PARENT, node): append.
mxmlAddLast(h, parent, node) ==
  LET h1 == mxmlRemove(h, node)
  IN  [h1 EXCEPT ![parent].kids = Append(@, node), ![node].parent = parent]

\* mxmlAdd(parent, MXML_ADD_BEFORE, MXML_ADD_TO_PARENT, node): prepend.
mxmlAddFirst(h, parent, node) ==
  LET h1 == mxmlRemove(h, node)
  IN  [h1 EXCEPT ![parent].kids = <<node>> \o @, ![node].parent = parent]

\* mxmlFindElement(tree, tree, elem, "name", name, MXML_DESCEND_FIRST): the
\* first child of tree with that element name and that name attribute, or 0.
FindNamed(h, tree, elem, name) ==
  LET ks == h[tree].kids
      hit == {i \in 1..Len(ks) : h[ks[i]].elem = elem /\ h[ks[i]].name = <<name>>}
  IN  IF hit = {} THEN 0
      ELSE ks[CHOOSE i \in hit : \A j \in hit : i <= j]

\* mxmlFindElement(node, node, elem, NULL, NULL, MXML_DESCEND_FIRST)
FindChild(h, node, elem) ==
  LET ks == h[node].kids
      hit == {i \in 1..Len(ks) : h[ks[i]].elem = elem}
  IN  IF hit = {} THEN 0
      ELSE ks[CHOOSE i \in hit : \A j \in hit : i <= j]

(***************************************************************************)
(* sort_node                                                               *)
(***************************************************************************)
\* The sibling sort_node inserts before when every named sibling is compared
\* with the node only if it is of the node's kind.
SortPlaceSameKind(h, tree, node) ==
  LET ks == h[tree].kids
      hit == {i \in 1..Len(ks) :
                /\ h[ks[i]].name # None
                /\ h[ks[i]].elem = h[node].elem
                /\ StrCmp(h[node].name[1], h[ks[i]].name[1]) < 0}
  IN  IF hit = {} THEN 0
      ELSE ks[CHOOSE i \in hit : \A j \in hit : i <= j]

\* The sibling sort_node inserts before: the first child, of any kind, that has
\* a name attribute greater than the node's, or 0 to append.
SortPlace(h, tree, node) ==
  LET ks == h[tree].kids
      hit == {i \in 1..Len(ks) :
                h[ks[i]].name # None /\ StrCmp(h[node].name[1], h[ks[i]].name[1]) < 0}
  IN  IF hit = {} THEN 0
      ELSE ks[CHOOSE i \in hit : \A j \in hit : i <= j]

\* A scope that is always taken from the sibling that is replaced.
SortScopeOld(h, temp, node) == h[temp].scope

\* The scope copied from the sibling that is replaced.
SortScope(h, temp, node) ==
  IF h[temp].scope # None /\ h[node].scope = None THEN h[temp].scope
  ELSE h[node].scope

\* Names sort_node refuses: no name attribute, or a leading underscore.
SortHidden(h, node) ==
  \/ h[node].name = None
  \/ FirstChar(h[node].name[1]) = 95

\* sort_node that keeps an existing definition of the same kind and name.
SortMergeKeep(h, tree, node) == h

\* Delete any existing definition at this level, after copying its scope.
SortMerge(h, tree, node) ==
  Only({ IF temp # 0
         THEN mxmlDelete([h EXCEPT ![node].scope = SortScope(h, temp, node)], temp)
         ELSE h
         : temp \in {FindNamed(h, tree, h[node].elem, h[node].name[1])} })

sort_node(h, tree, node) ==
  IF tree = 0 \/ node = 0 THEN h
  ELSE IF h[node].parent = tree THEN h
  ELSE IF SortHidden(h, node) THEN h
  ELSE Only({ IF SortPlace(h1, tree, node) # 0
              THEN mxmlAddBefore(h1, tree, SortPlace(h1, tree, node), node)
              ELSE mxmlAddLast(h1, tree, node)
              : h1 \in {SortMerge(h, tree, node)} })

(***************************************************************************)
(* stringbuf_t                                                             *)
(***************************************************************************)
\* sizeof(buffer->buffer)
StringBufSize == 65536

\* stringbuf_append when every size asks for room for one byte only.
stringbuf_appendOneByteRoom(buf, ch) ==
  IF Len(buf) >= StringBufSize - 1 THEN [buf |-> buf, ok |-> 0]
  ELSE IF ch < 128 THEN [buf |-> Append(buf, ch % 256), ok |-> 1]
  ELSE IF ch < 2048
  THEN [buf |-> buf \o <<192 + ((ch \div 64) % 32), 128 + (ch % 64)>>, ok |-> 1]
  ELSE IF ch < 65536
  THEN [buf |-> buf \o <<224 + ((ch \div 4096) % 16), 128 + ((ch \div 64) % 64),
                          128 + (ch % 64)>>, ok |-> 1]
  ELSE [buf |-> buf \o <<240 + ((ch \div 262144) % 8), 128 + ((ch \div 4096) % 64),
                          128 + ((ch \div 64) % 64), 128 + (ch % 64)>>, ok |-> 1]

\* stringbuf_append(buffer, ch): the UTF-8 bytes of ch are appended when they
\* fit; .ok is the value returned.  (char)ch keeps the low 8 bits.
stringbuf_append(buf, ch) ==
  IF ch < 128
  THEN IF Len(buf) < StringBufSize - 1
       THEN [buf |-> Append(buf, ch % 256), ok |-> 1]
       ELSE [buf |-> buf, ok |-> 0]
  ELSE IF ch < 2048
  THEN IF Len(buf) < StringBufSize - 2
       THEN [buf |-> buf \o <<192 + ((ch \div 64) % 32), 128 + (ch % 64)>>, ok |-> 1]
       ELSE [buf |-> buf, ok |-> 0]
  ELSE IF ch < 65536
  THEN IF Len(buf) < StringBufSize - 3
       THEN [buf |-> buf \o <<224 + ((ch \div 4096) % 16), 128 + ((ch \div 64) % 64),
                               128 + (ch % 64)>>, ok |-> 1]
       ELSE [buf |-> buf, ok |-> 0]
  ELSE IF Len(buf) < StringBufSize - 4
       THEN [buf |-> buf \o <<240 + ((ch \div 262144) % 8), 128 + ((ch \div 4096) % 64),
                               128 + ((ch \div 64) % 64), 128 + (ch % 64)>>, ok |-> 1]
       ELSE [buf |-> buf, ok |-> 0]

\* stringbuf_clear(buffer)
stringbuf_clear == <<>>

\* stringbuf_getlast(buffer): the last char (a signed char), or EOF.
stringbuf_getlast(buf) ==
  IF buf = <<>> THEN EOF
  ELSE IF buf[Len(buf)] >= 128 THEN buf[Len(buf)] - 256 ELSE buf[Len(buf)]

\* stringbuf_length(buffer)
stringbuf_length(buf) == Len(buf)

(***************************************************************************)
(* filebuf_t                                                               *)
(***************************************************************************)
\* filebuf_open(): the saved character is 0, line and column are 1.
filebuf_open(data) == [data |-> data, pos |-> 0, ch |-> 0, line |-> 1, column |-> 1]

\* filebuf_ungetc(file, ch)
filebuf_ungetc(f, ch) == [f EXCEPT !.ch = ch]

\* getc(file->fp) for the byte after the first n unread bytes.
RawByte(f, n) == IF f.pos + n < Len(f.data) THEN f.data[f.pos + n + 1] ELSE EOF

\* (ch2 & 0xc0) != 0x80; EOF (-1) has both bits set.
NotContinuation(b) == b = EOF \/ b \div 64 # 2

\* The code point and the number of bytes of the UTF-8 sequence whose bytes
\* are c1..c4 when left bytes are unread, or .bad when it is malformed.
Utf8Of(c1, c2, c3, c4, left) ==
  IF c1 < 128 THEN [bad |-> FALSE, ch |-> c1, n |-> 1]
  ELSE IF c1 \div 32 = 6
  THEN IF NotContinuation(c2) THEN [bad |-> TRUE, ch |-> 0, n |-> IF left < 2 THEN left ELSE 2]
       ELSE [bad |-> FALSE, ch |-> (c1 % 32) * 64 + (c2 % 64), n |-> 2]
  ELSE IF c1 \div 16 = 14
  THEN IF NotContinuation(c2) \/ NotContinuation(c3)
       THEN [bad |-> TRUE, ch |-> 0, n |-> IF left < 3 THEN left ELSE 3]
       ELSE [bad |-> FALSE, ch |-> (c1 % 16) * 4096 + (c2 % 64) * 64 + (c3 % 64), n |-> 3]
  ELSE IF c1 \div 8 = 30
  THEN IF NotContinuation(c2) \/ NotContinuation(c3) \/ NotContinuation(c4)
       THEN [bad |-> TRUE, ch |-> 0, n |-> IF left < 4 THEN left ELSE 4]
       ELSE [bad |-> FALSE,
             ch |-> (c1 % 8) * 262144 + (c2 % 64) * 4096 + (c3 % 64) * 64 + (c4 % 64),
             n |-> 4]
  ELSE [bad |-> TRUE, ch |-> 0, n |-> 1]

\* The UTF-8 sequence at the read position of f.
Utf8Decode(f) ==
  Utf8Of(RawByte(f, 0), RawByte(f, 1), RawByte(f, 2), RawByte(f, 3), Len(f.data) - f.pos)

\* Control characters refused when backspace is let through.
IllegalControlNoBackspace(ch) == ch = 127 \/ ch < 7 \/ (ch > 13 /\ ch < 32)

\* The control characters filebuf_getc refuses.
IllegalControl(ch) == ch = 127 \/ ch < 7 \/ ch = 8 \/ (ch > 13 /\ ch < 32)

\* Line and column after a character has been read.
Advance(f, ch) ==
  IF ch = 9 THEN [f EXCEPT !.column = ((f.column + 7) \div 8) * 8 + 1]
  ELSE IF ch = 10 \/ ch = 12 THEN [f EXCEPT !.line = @ + 1, !.column = 1]
  ELSE IF ch = 11 THEN [f EXCEPT !.line = @ + 1]
  ELSE IF ch = 13 THEN [f EXCEPT !.column = 1]
  ELSE [f EXCEPT !.column = @ + 1]

\* filebuf_getc when the saved character is returned and left in place.
filebuf_getcKeepsSaved(f) ==
  IF f.ch # 0
  THEN [ch |-> IF f.ch > 256 THEN (f.ch \div 256) % 256 ELSE f.ch, file |-> f, exit |-> FALSE]
  ELSE IF RawByte(f, 0) = EOF
  THEN [ch |-> EOF, file |-> f, exit |-> FALSE]
  ELSE Only({ IF d.bad \/ IllegalControl(d.ch)
              THEN [ch |-> EOF, file |-> [f EXCEPT !.pos = @ + d.n], exit |-> TRUE]
              ELSE [ch |-> d.ch, file |-> Advance([f EXCEPT !.pos = @ + d.n], d.ch),
                    exit |-> FALSE]
              : d \in {Utf8Decode(f)} })

\* filebuf_getc(file): .ch is the character returned (or EOF), .file the
\* buffer afterwards, .exit is TRUE when the call ends the process (exit(1)).
filebuf_getc(f) ==
  IF f.ch # 0
  THEN IF f.ch > 256
       THEN [ch |-> (f.ch \div 256) % 256, file |-> [f EXCEPT !.ch = f.ch % 256], exit |-> FALSE]
       ELSE [ch |-> f.ch, file |-> [f EXCEPT !.ch = 0], exit |-> FALSE]
  ELSE IF RawByte(f, 0) = EOF
  THEN [ch |-> EOF, file |-> f, exit |-> FALSE]
  ELSE Only({ IF d.bad \/ IllegalControl(d.ch)
              THEN [ch |-> EOF, file |-> [f EXCEPT !.pos = @ + d.n], exit |-> TRUE]
              ELSE [ch |-> d.ch, file |-> Advance([f EXCEPT !.pos = @ + d.n], d.ch),
                    exit |-> FALSE]
              : d \in {Utf8Decode(f)} })

(***************************************************************************)
(* update_comment                                                          *)
(***************************************************************************)
RECURSIVE Unescape(_, _)
\* for (ptr = strstr(s, "\\/"); ptr; ptr = strstr(ptr, "\\/")) safe_strcpy(ptr, ptr + 1);
Unescape(s, from) ==
  LET hit == {i \in from..(Len(s) - 1) : s[i] = 92 /\ s[i + 1] = 47}
  IN  IF hit = {} THEN s
      ELSE LET i == CHOOSE i \in hit : \A j \in hit : i <= j
           IN  Unescape(SubSeq(s, 1, i - 1) \o SubSeq(s, i + 1, Len(s)), i)

\* The index of the first byte at or after i that is not in set cs, or Len(s) + 1.
SkipWhile(s, i, In(_)) ==
  LET stop == {j \in i..Len(s) : ~In(s[j])}
  IN  IF stop = {} THEN Len(s) + 1 ELSE CHOOSE j \in stop : \A k \in stop : j <= k

From(s, i) == SubSeq(s, i, Len(s))

IsStar(c) == c = 42

\* while (isspace(*ptr)) ptr ++; if (*ptr == '-') ptr ++; while (isspace(*ptr)) ptr ++;
SkipDash(s, i) ==
  LET a == SkipWhile(s, i, IsSpace)
      b == IF a <= Len(s) /\ s[a] = 45 THEN a + 1 ELSE a
  IN  SkipWhile(s, b, IsSpace)

\* A comment whose quoted start is never cut off.
StripQuotedNever(s) == s

\* A quoted start that is cut off with or without "()" before the end quote.
StripQuotedAny(s) ==
  LET NotQuote(c) == c # 39
      p == SkipWhile(s, 2, NotQuote)
  IN  IF p <= Len(s) THEN From(s, SkipDash(s, p + 1)) ELSE s

\* "'name()' - description" becomes "description".
StripQuoted(s) ==
  LET NotEnd(c) == c # 39 /\ c # 40
      p == SkipWhile(s, 2, NotEnd)
  IN  IF p + 2 <= Len(s) /\ s[p] = 40 /\ s[p + 1] = 41 /\ s[p + 2] = 39
      THEN From(s, SkipDash(s, p + 3))
      ELSE s

\* A comment in which no direction is looked for.
HasDirectionNever(s) == FALSE

\* Does the comment start with "I ", "O " or "IO "?
HasDirection(s) ==
  HasPrefix(s, <<73, 32>>) \/ HasPrefix(s, <<79, 32>>) \/ HasPrefix(s, <<73, 79, 32>>)

\* Eliminate leading and trailing *'s and whitespace.
DropTrailing(s, In(_)) ==
  IF s = <<>> THEN s
  ELSE LET keep == {j \in 1..Len(s) : j = 1 \/ ~In(s[j])}
       IN  SubSeq(s, 1, CHOOSE j \in keep : \A k \in keep : k <= j)

StripStars(s) ==
  DropTrailing(DropTrailing(From(s, SkipWhile(s, SkipWhile(s, 1, IsStar), IsSpace)), IsStar),
               IsSpace)

\* update_comment(parent, comment): .text is the opaque value the comment
\* node is left with, .direction the "direction" attribute set on parent (None
\* when it is not set); elem is mxmlGetElement(parent).
update_comment(elem, raw) ==
  Only({ LET quoted == s2 # <<>> /\ s2[1] = 39
             dir == ~quoted /\ HasDirection(s2)
             sp == IF dir
                   THEN CHOOSE i \in 1..Len(s2) : s2[i] = 32 /\ \A j \in 1..(i - 1) : s2[j] # 32
                   ELSE 0
         IN  [text |-> StripStars(IF quoted THEN StripQuoted(s2)
                                  ELSE IF dir THEN From(s2, SkipDash(s2, sp + 1))
                                  ELSE s2),
              direction |-> IF dir /\ elem = "argument" THEN <<SubSeq(s2, 1, sp - 1)>>
                            ELSE None]
         : s2 \in {From(Unescape(raw, 1), SkipWhile(Unescape(raw, 1), 1, IsSpace))} })

(***************************************************************************)
(* <type> token lists                                                      *)
(*                                                                         *)
(* The text children of a <type> element: .ws is the whitespace flag of    *)
(* the text node, .s its string.  A pending type (the local `type` of      *)
(* scan_file) is None for NULL and <<toks>> for an element that is not yet *)
(* linked anywhere; it becomes a heap node when it is added to a parent.   *)
(***************************************************************************)
Tok(ws, s) == [ws |-> ws, s |-> s]

BoolInt(b) == IF b THEN 1 ELSE 0

\* get_nth_text(type, idx, NULL) for idx = 0, 1, -1: None for NULL, else <<string>>.
get_nth_text(toks, idx) ==
  IF idx = -1
  THEN IF toks = <<>> THEN None ELSE <<toks[Len(toks)].s>>
  ELSE IF idx + 1 <= Len(toks) THEN <<toks[idx + 1].s>> ELSE None

\* isalnum(ch & 255) || ch == '_' for ch = get_nth_text(type, -1, NULL)[0]
AfterWord(toks) ==
  LET c == FirstChar(toks[Len(toks)].s)
  IN  BoolInt(IsAlnum(c) \/ c = Chr("_"))

\* child != NULL && *string != '(' && *string != '*', string the last token
SpaceBefore(toks) ==
  BoolInt(toks # <<>> /\ FirstChar(toks[Len(toks)].s) # Chr("(")
                      /\ FirstChar(toks[Len(toks)].s) # Chr("*"))

\* clear_whitespace(mxmlGetFirstChild(type))
clear_whitespace(toks) == [toks EXCEPT ![1].ws = 0]

RECURSIVE Join(_, _)
\* The copy loops of add_variable: each string is appended to the buffer,
\* after a space when its whitespace flag is set and the buffer is not empty.
Join(toks, acc) ==
  IF toks = <<>> THEN acc
  ELSE Join(Tail(toks),
            acc \o (IF Head(toks).ws = 1 /\ acc # <<>> THEN <<32>> ELSE <<>>) \o Head(toks).s)

FirstIndex(toks, P(_)) ==
  LET hit == {i \in 1..Len(toks) : P(toks[i])}
  IN  IF hit = {} THEN 0 ELSE CHOOSE i \in hit : \A j \in hit : i <= j

\* A new <type> element holding toks, as the last child of parent.
NewType(h, parent, toks) ==
  LET h1 == mxmlNewElement(h, parent, "type")
  IN  [h1 EXCEPT ![Len(h1)].toks = toks]

\* A new <type> element holding toks, as the first child of parent.
NewTypeFirst(h, parent, toks) ==
  LET h1 == Append(h, [NewNodeRec("type", parent) EXCEPT !.toks = toks])
  IN  [h1 EXCEPT ![parent].kids = <<Len(h1)>> \o @]

(***************************************************************************)
(* add_variable                                                            *)
(***************************************************************************)
\* add_variable(parent, elem, type): .heap is the heap afterwards, .id the
\* node returned (0 for NULL), .ub is TRUE when the call dereferences NULL or
\* reads its uninitialized buffer.
add_variable(h, parent, elem, toks) ==
  LET IsEq(t) == t.s = <<61>>
      IsOpen(t) == FirstChar(t.s) = Chr("(")
      eq == FirstIndex(toks, IsEq)
      dflt == IF eq = 0 THEN None ELSE <<Join(SubSeq(toks, eq, Len(toks)), <<>>)>>
      rest == IF eq = 0 THEN toks ELSE SubSeq(toks, 1, eq - 1)
      fnptr == rest # <<>> /\ FirstChar(rest[Len(rest)].s) = Chr(")")
      id == Len(h) + 1
  IN  IF toks = <<>> THEN [heap |-> h, id |-> 0, ub |-> FALSE]
      ELSE IF rest = <<>> THEN [heap |-> h, id |-> 0, ub |-> TRUE]
      ELSE Only({ LET name == IF fnptr
                              THEN IF lp = 0 THEN (IF eq = 0 THEN <<>> ELSE dflt[1])
                                   ELSE Join(SubSeq(rest, lp, Len(rest)), <<>>)
                              ELSE rest[Len(rest)].s
                      left == IF fnptr
                              THEN IF lp = 0 THEN rest ELSE SubSeq(rest, 1, lp - 1)
                              ELSE SubSeq(rest, 1, Len(rest) - 1)
                  IN  IF fnptr /\ lp = 0 /\ eq = 0
                      THEN [heap |-> h, id |-> 0, ub |-> TRUE]
                      ELSE [heap |-> NewType([mxmlNewElement(h, parent, elem)
                                                EXCEPT ![id].name = <<name>>, ![id].dflt = dflt],
                                             id, left),
                            id |-> id, ub |-> FALSE]
                  : lp \in {FirstIndex(rest, IsOpen)} })

(***************************************************************************)
(* scan_file: one invocation                                               *)
(***************************************************************************)
\* The locals of a scan_file invocation.  Node pointers are heap indexes, 0
\* for NULL.  comment is the list of opaque children of the <temp> element.
\* child is what the local `child` holds: "uninit" before its first
\* assignment, "null", "text" (the first text node of a <type>) or "freed";
\* childnode is the <type> element that holds that text node once the type
\* is linked into the tree (0 while it is the pending type).  ret says where
\* the caller resumes: "main", "namespace", "scu" or "extern".
NewFrame(h, tree, nsname, ret) ==
  [state |-> "NONE", braces |-> 0, parens |-> 0, tree |-> tree, nsname |-> nsname,
   buffer |-> stringbuf_clear, comment |-> <<>>, constant |-> 0, enumeration |-> 0,
   function |-> 0, fstructclass |-> 0, structclass |-> 0, typedefnode |-> 0,
   variable |-> 0, returnvalue |-> 0, type |-> None, scope |-> IF h[tree].elem = "class" THEN <<"private">> ELSE None,
   tree_is_scu |-> h[tree].elem \in {"class", "struct", "union"},
   nskeyword |-> 0, nsnamestr |-> <<>>, child |-> "uninit", childnode |-> 0, ret |-> ret]

\* What one pass through the body of the main loop leaves: the invocation's
\* locals, the heap, the file buffer, the text appended to the body, whether
\* the process exited (exit) or ran into undefined behaviour (ub), the nested
\* scan_file call it makes (call) and whether it returns (ret).
Res(fr, h, f) ==
  [fr |-> fr, heap |-> h, file |-> f, body |-> <<>>, exit |-> FALSE, ub |-> FALSE,
   call |-> None, ret |-> FALSE]

\* mxmlDelete(type); type = NULL.  The text node `child` points to goes with it.
DropType(fr) ==
  [fr EXCEPT !.type = None,
             !.child = IF @ = "text" /\ fr.childnode = 0 /\ fr.type # None THEN "freed" ELSE @]

\* The pending type is linked into the tree as element id; type = NULL.
LinkType(fr, id) ==
  [fr EXCEPT !.type = None,
             !.childnode = IF fr.child = "text" /\ @ = 0 THEN id ELSE @]

\* "%s::%s"
Qualified(ns, s) == ns \o <<58, 58>> \o s

\* The name given to a symbol declared as s: qualified when nsname is set.
NsName(fr, s) == IF fr.nsname # None THEN Qualified(fr.nsname[1], s) ELSE s

\* A new <description> under parent holding commstr, normalized.
Describe(h, parent, commstr) ==
  Only({ [mxmlNewElement(h, parent, "description")
            EXCEPT ![Len(h) + 1].opq = <<u.text>>,
                   ![parent].direction = IF u.direction # None THEN u.direction ELSE @]
         : u \in {update_comment(h[parent].elem, commstr)} })

\* A new <description> under parent; the last pending comment, normalized by
\* update_comment, is moved into it (mxmlAdd) when there is one.
\* .heap, .comment: the heap and the pending comments afterwards.
TakeComment(h, comment, parent) ==
  IF comment = <<>>
  THEN [heap |-> mxmlNewElement(h, parent, "description"), comment |-> comment]
  ELSE [heap |-> Describe(h, parent, comment[Len(comment)]),
        comment |-> SubSeq(comment, 1, Len(comment) - 1)]

(***************************************************************************)
(* scan_file: STATE_NONE                                                   *)
(***************************************************************************)
S_typedef == Str("typedef")

S_struct == Str("struct")

S_union == Str("union")

S_class == Str("class")

S_enum == Str("enum")

S_extern == Str("extern")

S_static == Str("static")

S_void == Str("void")

S_namespace == Str("namespace")

S_private == Str("@private@")

S_body == Str("@body@")

\* An operator character appended to the pending type, if there is one.
AddTok(fr, ws, s) ==
  IF fr.type = None THEN fr ELSE [fr EXCEPT !.type = <<Append(@[1], Tok(ws, s))>>]

\* case '/' : a comment starts, or "/" is an operator of the pending type.
NoneSlash(fr, h, f) ==
  LET fr1 == [fr EXCEPT !.buffer = stringbuf_clear]
  IN  Only({ IF g.exit THEN [Res(fr1, h, g.file) EXCEPT !.exit = TRUE]
             ELSE IF g.ch = Chr("*") THEN Res([fr1 EXCEPT !.state = "C_COMMENT"], h, g.file)
             ELSE IF g.ch = Chr("/")
             THEN Only({ IF g2.exit THEN [Res(fr1, h, g2.file) EXCEPT !.exit = TRUE]
                         ELSE Res([fr1 EXCEPT !.state = "CXX_COMMENT"], h,
                                  IF g2.ch # 32 THEN filebuf_ungetc(g2.file, g2.ch)
                                  ELSE g2.file)
                         : g2 \in {filebuf_getc(g.file)} })
             ELSE Res(IF fr1.type = None THEN fr1
                      ELSE AddTok(fr1, AfterWord(fr1.type[1]), <<47>>),
                      h, filebuf_ungetc(g.file, g.ch))
             : g \in {filebuf_getc(f)} })

\* case '#' : a preprocessor line; the pending comments are dropped.
NoneHash(fr, h, f) == Res([fr EXCEPT !.state = "PREPROCESSOR", !.comment = <<>>], h, f)

\* case '\'' : a character constant starts.
NoneQuote(fr, h, f) ==
  Res([fr EXCEPT !.state = "CHARACTER", !.buffer = stringbuf_append(stringbuf_clear, 39).buf], h, f)

\* case '\"' : a string constant starts.
NoneDoubleQuote(fr, h, f) ==
  Res([fr EXCEPT !.state = "STRING", !.buffer = stringbuf_append(stringbuf_clear, 34).buf], h, f)

\* A test for static functions that never succeeds.
StaticFunctionNever(fr, h) == FALSE

\* temptype && mxmlGetFirstChild(temptype) && its text is "static" && the
\* tree is <codedoc>: the pending function is a static function at file scope.
StaticFunction(fr, h) ==
  LET temptype == IF fr.returnvalue = 0 THEN 0 ELSE FindChild(h, fr.returnvalue, "type")
  IN  /\ temptype # 0
      /\ h[temptype].toks # <<>>
      /\ h[temptype].toks[1].s = S_static
      /\ h[fr.tree].elem = "codedoc"

\* The mxml element name for the keyword that starts an aggregate.
AggregateElem(string) ==
  IF string = S_struct THEN "struct" ELSE IF string = S_union THEN "union" ELSE "class"

IsAggregateWord(string) == string \in {S_struct, S_union, S_class}

\* The bytes of temp[] written by the loop that builds the "parent"
\* attribute.  mem is the buffer (-2 stands for a byte never written), ptr the
\* offset of tempptr; every pass ends with tempptr += strlen(temp).
CStrLen(mem) ==
  LET z == {i \in 1..Len(mem) : mem[i] = 0}
  IN  (CHOOSE i \in z : \A j \in z : i <= j) - 1

WriteAt(mem, off, bytes) ==
  LET n == IF Len(mem) > off + Len(bytes) THEN Len(mem) ELSE off + Len(bytes)
  IN  [i \in 1..n |-> IF i > off /\ i <= off + Len(bytes) THEN bytes[i - off]
                      ELSE IF i <= Len(mem) THEN mem[i] ELSE -2]

RECURSIVE ParentLoop(_, _, _)
ParentLoop(toks, mem, ptr) ==
  IF toks = <<>> THEN mem
  ELSE Only({ Only({ ParentLoop(rest, mem2, ptr1 + CStrLen(mem2))
                     : mem2 \in {WriteAt(IF sp THEN WriteAt(mem, ptr, <<32>>) ELSE mem,
                                         ptr1, Head(toks).s \o <<0>>)} })
              : sp \in {Head(toks).ws = 1 /\ ptr > 0},
                ptr1 \in {IF Head(toks).ws = 1 /\ ptr > 0 THEN ptr + 1 ELSE ptr},
                rest \in {Tail(toks)} })

\* The value of the "parent" attribute for the tokens after the aggregate name.
ParentAttr(toks) ==
  LET mem == ParentLoop(toks, <<>>, 0)
  IN  SubSeq(mem, 1, CStrLen(mem))

\* The description(s) made at the '{' of an aggregate or enumeration: the last
\* pending comment is duplicated for the typedef, then one goes to each node.
OpenDescriptions(h, comment, tdn, node) ==
  Only({ TakeComment(t1.heap, t1.comment, node)
         : t1 \in {IF tdn # 0 /\ comment # <<>>
                   THEN TakeComment(h, Append(comment, comment[Len(comment)]), tdn)
                   ELSE [heap |-> h, comment |-> comment]} })

\* Start of a class, struct or union: the nodes are made, the aggregate is
\* sorted into the tree when it has a name, and scan_file is called on its body.
StartAggregate(fr, h, f) ==
  LET toks0 == fr.type[1]
      isTypedef == toks0[1].s = S_typedef
      tdn == IF isTypedef THEN Len(h) + 1 ELSE 0
      sc == IF isTypedef THEN Len(h) + 2 ELSE Len(h) + 1
      toks1 == IF isTypedef THEN Tail(toks0) ELSE toks0
      next_string == get_nth_text(toks1, 1)
      toks2 == IF next_string # None /\ fr.nsname # None
               THEN [toks1 EXCEPT ![2] = Tok(1, NsName(fr, next_string[1]))]
               ELSE toks1
      h1 == IF isTypedef THEN mxmlNewElement(h, 0, "typedef") ELSE h
      h2 == mxmlNewElement(h1, 0, AggregateElem(toks1[1].s))
  IN  Only({ Only({ [Res([fr EXCEPT !.typedefnode = tdn, !.structclass = sc,
                                    !.type = IF tdn # 0 THEN <<clear_whitespace(toks2)>>
                                             ELSE None,
                                    !.child = IF tdn # 0 THEN "text" ELSE "freed",
                                    !.childnode = 0,
                                    !.comment = d.comment],
                         d.heap, f)
                       EXCEPT !.call = <<[tree |-> sc, nsname |-> fr.nsname, ret |-> "scu"]>>]
                    : d \in {OpenDescriptions(
                               IF tdn = 0 /\ Len(toks2) >= 3
                               THEN [h3 EXCEPT ![sc].parentattr =
                                                 <<ParentAttr(SubSeq(toks2, 3, Len(toks2)))>>]
                               ELSE h3,
                               fr.comment, tdn, sc)} })
             : h3 \in {IF next_string # None
                       THEN sort_node([h2 EXCEPT ![sc].name = <<NsName(fr, next_string[1])>>],
                                      fr.tree, sc)
                       ELSE h2} })

\* Start of an enumeration.
StartEnum(fr, h, f) ==
  LET toks0 == fr.type[1]
      isTypedef == toks0[1].s = S_typedef
      tdn == IF isTypedef THEN Len(h) + 1 ELSE 0
      en == IF isTypedef THEN Len(h) + 2 ELSE Len(h) + 1
      toks1 == IF isTypedef THEN Tail(toks0) ELSE toks0
      next_string == get_nth_text(toks1, 1)
      toks2 == IF next_string # None /\ fr.nsname # None
               THEN [toks1 EXCEPT ![2] = Tok(1, NsName(fr, next_string[1]))]
               ELSE toks1
      h1 == IF isTypedef THEN mxmlNewElement(h, 0, "typedef") ELSE h
      h2 == mxmlNewElement(h1, 0, "enumeration")
      h3 == IF next_string # None
            THEN sort_node([h2 EXCEPT ![en].name = <<NsName(fr, next_string[1])>>], fr.tree, en)
            ELSE h2
  IN  Only({ Res([fr EXCEPT !.typedefnode = tdn, !.enumeration = en,
                            !.type = IF tdn # 0 /\ toks2 # <<>>
                                     THEN <<clear_whitespace(toks2)>> ELSE None,
                            !.comment = d.comment,
                            !.braces = @ + 1, !.function = 0, !.variable = 0],
                 d.heap, f)
             : d \in {OpenDescriptions(h3, fr.comment, tdn, en)} })

\* The pending function meets '{': it is dropped when static at file scope,
\* else sorted into the class found for "Class::method", else into the tree.
FunctionAtBrace(fr, h, f) ==
  LET static == StaticFunction(fr, h)
  IN  IF ~static /\ fr.fstructclass # 0 /\ h[fr.fstructclass].elem = "FREE"
      THEN [Res(fr, h, f) EXCEPT !.ub = TRUE]
      ELSE Res([fr EXCEPT !.fstructclass = IF static THEN @ ELSE 0,
                          !.function = 0, !.returnvalue = 0, !.variable = 0,
                          !.braces = @ + 1],
               IF static THEN mxmlDelete(h, fr.function)
               ELSE sort_node(h, IF fr.fstructclass # 0 THEN fr.fstructclass ELSE fr.tree,
                              fr.function),
               f)

\* case '{'
NoneOpenBrace(fr, h, f) ==
  LET string == IF fr.type = None THEN None ELSE get_nth_text(fr.type[1], 0)
      next_string == IF fr.type = None THEN None ELSE get_nth_text(fr.type[1], 1)
  IN  IF fr.nskeyword # 0
      THEN [Res(fr, h, f) EXCEPT
              !.call = <<[tree |-> fr.tree, nsname |-> <<fr.nsnamestr>>, ret |-> "namespace"]>>]
      ELSE IF fr.function # 0 THEN FunctionAtBrace(fr, h, f)
      ELSE IF /\ string # None
              /\ \/ (string[1] = S_typedef /\ next_string # None
                       /\ IsAggregateWord(next_string[1]))
                 \/ IsAggregateWord(string[1])
      THEN StartAggregate(fr, h, f)
      ELSE IF /\ string # None
              /\ next_string # None
              /\ (string[1] = S_enum \/ (string[1] = S_typedef /\ next_string[1] = S_enum))
      THEN StartEnum(fr, h, f)
      ELSE IF string # None /\ string[1] = S_extern
      THEN [Res(fr, h, f) EXCEPT
              !.call = <<[tree |-> fr.tree, nsname |-> fr.nsname, ret |-> "extern"]>>]
      ELSE Res(DropType([fr EXCEPT !.braces = @ + 1, !.function = 0, !.variable = 0]), h, f)

\* The caller's locals when the nested scan_file call returns.
AfterCall(fr, ret) ==
  IF ret = "namespace" THEN [fr EXCEPT !.nskeyword = 0, !.nsnamestr = <<>>]
  ELSE IF ret = "scu" THEN [fr EXCEPT !.structclass = 0]
  ELSE [fr EXCEPT !.braces = @ + 1, !.function = 0, !.variable = 0]

\* case '}'
NoneCloseBrace(fr, h, f) ==
  LET fr1 == [fr EXCEPT !.scope = IF fr.structclass # 0 THEN None ELSE @,
                        !.enumeration = IF fr.typedefnode = 0 THEN 0 ELSE @,
                        !.constant = 0, !.structclass = 0]
  IN  IF fr.braces > 0
      THEN Res([fr1 EXCEPT !.braces = @ - 1,
                           !.comment = IF fr.braces = 1 THEN <<>> ELSE @], h, f)
      ELSE [Res(fr1, h, f) EXCEPT !.ret = TRUE]

\* case '('
NoneOpenParen(fr, h, f) == Res([AddTok(fr, 0, <<40>>) EXCEPT !.parens = @ + 1], h, f)

\* case ')'
NoneCloseParen(fr, h, f) ==
  LET fr1 == IF fr.parens # 0 THEN AddTok(fr, 0, <<41>>) ELSE fr
      last == fr.function # 0 /\ fr.type # None /\ fr.parens = 0
  IN  Only({ LET kept == /\ last
                         /\ Len(fr1.type[1]) >= 2
                         /\ ~av.ub
                         /\ av.heap[Len(av.heap)].toks # <<>>
                 fr2 == IF last
                        THEN [fr1 EXCEPT !.variable = av.id, !.type = None,
                                         !.child = IF fr1.type[1] = <<>> THEN "null"
                                                   ELSE IF kept THEN "text" ELSE "freed",
                                         !.childnode = IF kept THEN Len(av.heap) ELSE 0]
                        ELSE fr1
             IN  [Res([fr2 EXCEPT !.parens = IF @ > 0 THEN @ - 1 ELSE @], av.heap, f)
                    EXCEPT !.ub = av.ub]
             : av \in {IF last /\ Len(fr1.type[1]) >= 2
                       THEN add_variable(h, fr1.function, "argument", fr1.type[1])
                       ELSE [heap |-> h, id |-> fr1.variable, ub |-> FALSE]} })

\* The pending function meets ';': a prototype is kept only in a class body.
FunctionAtSemicolon(fr, h) ==
  IF fr.function = 0 THEN [fr |-> fr, heap |-> h]
  ELSE [fr |-> [fr EXCEPT !.function = 0, !.variable = 0, !.returnvalue = 0],
        heap |-> IF ~StaticFunction(fr, h) /\ h[fr.tree].elem = "class"
                 THEN sort_node(h, fr.tree, fr.function)
                 ELSE mxmlDelete(h, fr.function)]

\* The token that names a typedef met at ';': the first token after "(" that
\* is not "*" when the type has a "(" after its first token, else the last one.
TypedefNameIndex(toks) ==
  LET open == {i \in 2..Len(toks) : toks[i].s = <<40>>}
      o == IF open = {} THEN 0 ELSE CHOOSE i \in open : \A j \in open : i <= j
      word == {i \in (o + 1)..Len(toks) : toks[i].s # <<42>>}
  IN  IF o = 0 \/ word = {} THEN Len(toks)
      ELSE CHOOSE i \in word : \A j \in word : i <= j

\* "typedef ... name ;" : the typedef is made from the pending type.
TypedefAtSemicolon(fr, h, f) ==
  LET toks == fr.type[1]
      tdn == Len(h) + 1
  IN  Only({ LET left == SubSeq(toks, 2, n - 1) \o SubSeq(toks, n + 1, Len(toks))
             IN  Res([LinkType(fr, tdn + 1) EXCEPT !.typedefnode = tdn],
                     NewType(sort_node([mxmlNewElement(h, 0, "typedef")
                                          EXCEPT ![tdn].name = <<toks[n].s>>], fr.tree, tdn),
                             tdn, IF left # <<>> THEN clear_whitespace(left) ELSE left),
                     f)
             : n \in {TypedefNameIndex(toks)} })

\* "typedef enum ... ;" with the typedef and the enumeration both pending.
EnumTypedefAtSemicolon(fr, h, f) ==
  Only({ LET ename == h1[fr.enumeration].name
         IN  Res([DropType(fr) EXCEPT !.enumeration = 0],
                 NewType(h1, fr.typedefnode,
                         <<Tok(0, S_enum)>>
                           \o (IF ename = None THEN <<>> ELSE <<Tok(1, ename[1])>>)),
                 f)
         : h1 \in {sort_node([h EXCEPT ![fr.typedefnode].name = <<fr.type[1][1].s>>],
                             fr.tree, fr.typedefnode)} })

\* case ';'
NoneSemicolon(fr, h, f) ==
  Only({ LET fr1 == a.fr
             string == IF fr1.type = None THEN None ELSE get_nth_text(fr1.type[1], 0)
         IN  IF fr1.type = None THEN Res(fr1, a.heap, f)
             ELSE IF string # None /\ string[1] = S_typedef
             THEN TypedefAtSemicolon(fr1, a.heap, f)
             ELSE IF fr1.typedefnode # 0 /\ fr1.enumeration # 0
             THEN IF fr1.type[1] = <<>> \/ a.heap[fr1.typedefnode].elem = "FREE"
                       \/ a.heap[fr1.enumeration].elem = "FREE"
                  THEN [Res(fr1, a.heap, f) EXCEPT !.ub = TRUE]
                  ELSE EnumTypedefAtSemicolon(fr1, a.heap, f)
             ELSE Res(DropType(fr1), a.heap, f)
         : a \in {FunctionAtSemicolon(fr, h)} })

\* An operator whose whitespace flag depends on the token before it:
\* cases '*', '+', '-', '=' (and '/').
NoneOperator(fr, h, f, ch) ==
  IF fr.type = None THEN Res(fr, h, f)
  ELSE IF fr.type[1] = <<>> THEN [Res(fr, h, f) EXCEPT !.ub = TRUE]
  ELSE Res(AddTok(fr, AfterWord(fr.type[1]), <<ch>>), h, f)

\* case ':' and case '&'
NoneSpaced(fr, h, f, ch) == Res(AddTok(fr, 1, <<ch>>), h, f)

\* case ','
NoneComma(fr, h, f) ==
  Res(IF fr.enumeration = 0 THEN AddTok(fr, 0, <<44>>) ELSE fr, h, f)

\* isalnum(ch & 255) || ch == '_' || ch == '.' || ch == ':' || ch == '~'
StartsIdentifier(ch) ==
  IsAlnum(ch % 256) \/ ch \in {Chr("_"), Chr("."), Chr(":"), Chr("~")}

\* default : the start of an identifier, or a character that is skipped.
NoneDefault(fr, h, f, ch) ==
  IF StartsIdentifier(ch)
  THEN Res([fr EXCEPT !.state = "IDENTIFIER",
                      !.buffer = stringbuf_append(stringbuf_clear, ch).buf], h, f)
  ELSE Res(fr, h, f)

(***************************************************************************)
(* scan_file: STATE_PREPROCESSOR, STATE_STRING, STATE_CHARACTER            *)
(***************************************************************************)
\* case STATE_PREPROCESSOR
Preprocessor(fr, h, f, ch) ==
  IF ch = 10 THEN Res([fr EXCEPT !.state = "NONE"], h, f)
  ELSE IF ch = 92
  THEN Only({ [Res(fr, h, g.file) EXCEPT !.exit = g.exit] : g \in {filebuf_getc(f)} })
  ELSE Res(fr, h, f)

\* case STATE_STRING (quote = '\"') and case STATE_CHARACTER (quote = '\'')
Literal(fr, h, f, ch, quote) ==
  LET b1 == stringbuf_append(fr.buffer, ch).buf
  IN  IF ch = 92
      THEN Only({ [Res([fr EXCEPT !.buffer = stringbuf_append(b1, g.ch).buf], h, g.file)
                     EXCEPT !.exit = g.exit]
                  : g \in {filebuf_getc(f)} })
      ELSE IF ch = quote
      THEN Res([(IF fr.type = None THEN fr
                 ELSE AddTok(fr, BoolInt(fr.type[1] # <<>>), b1))
                  EXCEPT !.buffer = b1, !.state = "NONE"], h, f)
      ELSE Res([fr EXCEPT !.buffer = b1], h, f)

(***************************************************************************)
(* scan_file: comments                                                     *)
(***************************************************************************)
\* A comment test that finds no directive.
IsPrivateNever(commstr) == FALSE

\* strstr(commstr, "@private@")
IsPrivate(commstr) == StrStr(commstr, S_private)

\* A finished comment that is always kept with the pending comments.
DeliverToBuffer(fr, h, commstr, withBody) ==
  [fr |-> [fr EXCEPT !.comment = Append(@, commstr)], heap |-> h, body |-> <<>>, ub |-> FALSE]

\* Where a finished comment goes: the pending argument/variable, else the
\* pending constant, else the pending typedef (and its aggregate or
\* enumeration), else the tree being scanned when it is not <codedoc> and has
\* no description yet, else the body text (withBody only), else the pending
\* comments.  .fr, .heap and .body are the results; .ub is set when a node is
\* deleted twice.
Deliver(fr, h, commstr, withBody) ==
  LET private == IsPrivate(commstr)
      kept == [fr EXCEPT !.comment = Append(@, commstr)]
      out(fr1, h1) == [fr |-> fr1, heap |-> h1, body |-> <<>>, ub |-> FALSE]
      bad == [fr |-> fr, heap |-> h, body |-> <<>>, ub |-> TRUE]
      dead(n) == n # 0 /\ h[n].elem = "FREE"
  IN  IF fr.variable # 0
      THEN IF dead(fr.variable) THEN bad
           ELSE IF private THEN out([fr EXCEPT !.variable = 0], mxmlDelete(h, fr.variable))
           ELSE out([kept EXCEPT !.variable = 0], Describe(h, fr.variable, commstr))
      ELSE IF fr.constant # 0
      THEN IF dead(fr.constant) THEN bad
           ELSE IF private THEN out([fr EXCEPT !.constant = 0], mxmlDelete(h, fr.constant))
           ELSE out([kept EXCEPT !.constant = 0], Describe(h, fr.constant, commstr))
      ELSE IF fr.typedefnode # 0
      THEN IF dead(fr.typedefnode) \/ dead(fr.structclass) \/ dead(fr.enumeration) THEN bad
           ELSE IF private
           THEN out([fr EXCEPT !.typedefnode = 0, !.structclass = 0, !.enumeration = 0],
                    mxmlDelete(mxmlDelete(mxmlDelete(h, fr.typedefnode), fr.structclass),
                               fr.enumeration))
           ELSE out([kept EXCEPT !.typedefnode = 0],
                    IF fr.structclass # 0
                    THEN Describe(Describe(h, fr.typedefnode, commstr), fr.structclass, commstr)
                    ELSE IF fr.enumeration # 0
                    THEN Describe(Describe(h, fr.typedefnode, commstr), fr.enumeration, commstr)
                    ELSE Describe(h, fr.typedefnode, commstr))
      ELSE IF h[fr.tree].elem # "codedoc" /\ FindChild(h, fr.tree, "description") = 0
      THEN out(kept, Describe(h, fr.tree, commstr))
      ELSE IF withBody /\ HasPrefix(commstr, S_body)
      THEN [fr |-> fr, heap |-> h, body |-> <<From(commstr, 7)>>, ub |-> FALSE]
      ELSE out(kept, h)

\* if (mxmlGetFirstChild(comment) != mxmlGetLastChild(comment))
\*   mxmlDelete(mxmlGetFirstChild(comment));
DropFirst(comment) == IF Len(comment) >= 2 THEN Tail(comment) ELSE comment

\* The outcomes of mxmlGetFirstChild(child) != mxmlGetLastChild(comment), the
\* test made when a C comment ends after a newline: `child` is a text node or
\* NULL (then the test is "are there pending comments"), or it was never
\* assigned or points to freed memory (then either outcome may be seen).
ChildTest(fr, h) ==
  IF \/ fr.child = "null"
     \/ (fr.child = "text" /\ (fr.childnode = 0 \/ h[fr.childnode].elem # "FREE"))
  THEN {fr.comment # <<>>}
  ELSE IF fr.comment = <<>> THEN {FALSE} ELSE BOOLEAN

\* The comment is finished: deliver it and go back to STATE_NONE.
EndComment(fr, h, f, commstr, withBody) ==
  Only({ [Res([d.fr EXCEPT !.state = "NONE"], d.heap, f) EXCEPT !.body = d.body, !.ub = d.ub]
         : d \in {Deliver(fr, h, commstr, withBody)} })

RECURSIVE SkipStars(_)
\* while (ch == '*') ch = filebuf_getc(file);
SkipStars(g) ==
  IF g.exit \/ g.ch # 42 THEN g ELSE SkipStars(filebuf_getc(g.file))

\* if (stringbuf_length(&buffer) > 0) stringbuf_append(&buffer, '\n');
EndLine(buf) == IF stringbuf_length(buf) > 0 THEN stringbuf_append(buf, 10).buf ELSE buf

RECURSIVE CCommentLines(_, _, _, _)
\* case '\n' of STATE_C_COMMENT: the loop that reads the start of the next
\* lines, up to the text of a line, the end of the comment or end-of-file.
CCommentLines(fr, h, f, drop) ==
  Only({ IF g.exit THEN [Res(fr, h, g.file) EXCEPT !.exit = TRUE]
         ELSE IF g.ch = EOF THEN Res([fr EXCEPT !.buffer = EndLine(@)], h, g.file)
         ELSE IF g.ch = 42
         THEN Only({ IF g2.exit THEN [Res(fr, h, g2.file) EXCEPT !.exit = TRUE]
                     ELSE IF g2.ch = 47
                     THEN [EndComment([fr EXCEPT !.comment = IF drop /\ @ # <<>> THEN Tail(@)
                                                             ELSE @],
                                      h, filebuf_ungetc(g2.file, 47), fr.buffer, TRUE)
                             EXCEPT !.fr.buffer = EndLine(@)]
                     ELSE Only({ IF g3.exit THEN [Res(fr, h, g3.file) EXCEPT !.exit = TRUE]
                                 ELSE Res([fr EXCEPT !.buffer = EndLine(@)], h,
                                          IF g3.ch # 32 THEN filebuf_ungetc(g3.file, g3.ch)
                                          ELSE g3.file)
                                 : g3 \in {SkipStars(g2)} })
                     : g2 \in {filebuf_getc(g.file)} })
         ELSE IF g.ch = 10 /\ stringbuf_length(fr.buffer) > 0
         THEN CCommentLines([fr EXCEPT !.buffer = stringbuf_append(@, 10).buf], h, g.file, drop)
         ELSE IF ~IsSpace(g.ch % 256)
         THEN Res([fr EXCEPT !.buffer = EndLine(@)], h, filebuf_ungetc(g.file, g.ch))
         ELSE CCommentLines(fr, h, g.file, drop)
         : g \in {filebuf_getc(f)} })

\* The comment text when "*/" ends the comment on a line with text: the final
\* '*' and the '*'s and whitespace before it are cut off.
TrimClose(buf) ==
  LET keep == {j \in 0..(Len(buf) - 1) :
                 \A k \in (j + 1)..(Len(buf) - 1) : buf[k] = 42 \/ IsSpace(buf[k])}
  IN  SubSeq(buf, 1, CHOOSE j \in keep : \A k \in keep : j <= k)

\* case '/' of STATE_C_COMMENT, and default
CCommentChar(fr, h, f, ch) ==
  IF ch = 47 /\ stringbuf_getlast(fr.buffer) = 42
  THEN EndComment([fr EXCEPT !.comment = DropFirst(@)], h, f, TrimClose(fr.buffer), FALSE)
  ELSE IF ch = 32 /\ stringbuf_length(fr.buffer) = 0 THEN Res(fr, h, f)
  ELSE Res([fr EXCEPT !.buffer = stringbuf_append(@, ch).buf], h, f)

RECURSIVE BitOr(_, _)
\* a | b for a, b >= 0
BitOr(a, b) ==
  IF a = 0 THEN b ELSE IF b = 0 THEN a
  ELSE 2 * BitOr(a \div 2, b \div 2) + (IF a % 2 = 1 \/ b % 2 = 1 THEN 1 ELSE 0)

\* ('/' << 8) | ch ; every bit of EOF (-1) is set.
SlashAnd(ch) == IF ch = EOF THEN EOF ELSE BitOr(47 * 256, ch)

\* case STATE_CXX_COMMENT
CxxComment(fr, h, f, ch) ==
  LET done(f1) == EndComment([fr EXCEPT !.comment = DropFirst(@)], h, f1, fr.buffer, TRUE)
  IN  IF ch # 10 THEN Res([fr EXCEPT !.buffer = stringbuf_append(@, ch).buf], h, f)
      ELSE
        Only({ IF g.exit THEN [Res(fr, h, g.file) EXCEPT !.exit = TRUE]
               ELSE IF g.ch # 47 THEN done(filebuf_ungetc(g.file, g.ch))
               ELSE
                 Only({ IF g2.exit THEN [Res(fr, h, g2.file) EXCEPT !.exit = TRUE]
                        ELSE IF g2.ch # 47 THEN done(filebuf_ungetc(g2.file, SlashAnd(g2.ch)))
                        ELSE
                          Only({ IF g3.exit THEN [Res(fr, h, g3.file) EXCEPT !.exit = TRUE]
                                 ELSE Res([fr EXCEPT !.buffer = stringbuf_append(@, 10).buf], h,
                                          IF g3.ch # 32 THEN filebuf_ungetc(g3.file, g3.ch)
                                          ELSE g3.file)
                                 : g3 \in {filebuf_getc(g2.file)} })
                        : g2 \in {filebuf_getc(g.file)} })
               : g \in {filebuf_getc(f)} })

(***************************************************************************)
(* scan_file: STATE_IDENTIFIER                                             *)
(***************************************************************************)
\* The characters that continue an identifier.
ContinuesIdentifier(fr, ch) ==
  \/ IsAlnum(ch % 256)
  \/ ch \in {Chr("_"), Chr("["), Chr("]"), Chr(":"), Chr("."), Chr("~")}
  \/ (ch = Chr(",") /\ (fr.parens > 1
                        \/ (fr.type # None /\ fr.enumeration = 0 /\ fr.function = 0)))
  \/ (ch = Chr(",") /\ fr.parens > 0 /\ fr.typedefnode # 0)

\* A word that is never a scope label.
ScopeLabelNever(str) == None

\* The scope a label of a class body names, or None.
ScopeLabel(str) ==
  IF str \in {Str("public"), Str("public:")} THEN <<"public">>
  ELSE IF str \in {Str("private"), Str("private:")} THEN <<"private">>
  ELSE IF str \in {Str("protected"), Str("protected:")} THEN <<"protected">>
  ELSE None

\* A name that is never qualified.
QualifyNever(fr, fsc) == FALSE

\* nsname && !fstructclass && !tree_is_scu
QualifyHere(fr, fsc) == fr.nsname # None /\ fsc = 0 /\ ~fr.tree_is_scu

\* A return value made for every function that has a type.
HasReturnValueAny(toks) == toks # <<>>

\* mxmlGetLastChild(type) && (strcmp(last, "void") || !strcmp(first, "static"))
HasReturnValue(toks) ==
  toks # <<>> /\ (toks[Len(toks)].s # S_void \/ toks[1].s = S_static)

\* An identifier followed by '(' with no function pending: a new function.
\* The return type is the pending type; the last pending comment goes to the
\* return value when there is one, and the one before it to the function.
NewFunction(fr, h, f, str, toks) ==
  LET colons == {i \in 1..Len(str) : str[i] = 58}
      c == IF colons = {} THEN 0 ELSE CHOOSE i \in colons : \A j \in colons : i <= j
      member == c # 0 /\ c < Len(str) /\ str[c + 1] = 58
      cname == NsName(fr, SubSeq(str, 1, c - 1))
      inclass == FindNamed(h, fr.tree, "class", cname)
      ptr == IF member THEN SubSeq(str, c + 2, Len(str)) ELSE str
      fn == Len(h) + 1
      hasrv == HasReturnValue(toks)
      fr1 == IF hasrv THEN LinkType(fr, fn + 2) ELSE DropType(fr)
  IN  Only({
        LET h2 == [mxmlNewElement(h, 0, "function")
                     EXCEPT ![fn].name = <<IF QualifyHere(fr, fsc)
                                           THEN Qualified(fr.nsname[1], ptr) ELSE ptr>>,
                            ![fn].scope = fr.scope]
        IN  Only({
              Only({ Res([fr1 EXCEPT !.function = fn, !.fstructclass = fsc,
                                     !.returnvalue = IF hasrv THEN fn + 1 ELSE @,
                                     !.comment = t2.comment], t2.heap, f)
                     : t2 \in {TakeComment(t1.heap, t1.comment, fn)} })
              : t1 \in {IF hasrv
                        THEN TakeComment(NewType(mxmlNewElement(h2, fn, "returnvalue"),
                                                 fn + 1, toks),
                                         fr.comment, fn + 1)
                        ELSE [heap |-> h2, comment |-> fr.comment]} })
        : fsc \in {IF ~member THEN fr.fstructclass
                   ELSE IF inclass # 0 THEN inclass
                   ELSE FindNamed(h, fr.tree, "struct", cname)} })

\* An identifier followed by ',' or by the ')' that closes the argument list,
\* with a function pending: an argument, unless it is "void".
NewArgument(fr, h, f, str, toks) ==
  IF str = S_void THEN Res(DropType(fr), h, f)
  ELSE Only({ [Res([LinkType(fr, Len(av.heap)) EXCEPT !.variable = av.id], av.heap, f)
                 EXCEPT !.ub = av.ub]
              : av \in {add_variable(h, fr.function, "argument",
                                     Append(toks, Tok(SpaceBefore(toks), str)))} })

\* The name after the '}' of a typedef'd aggregate or enumeration, or a name
\* met while a typedef is still pending.
TypedefName(fr, h, f, str, toks) ==
  LET td == fr.typedefnode
      sc == fr.structclass
  IN  IF (td # 0 /\ h[td].elem = "FREE") \/ (sc # 0 /\ h[sc].elem = "FREE")
      THEN [Res(fr, h, f) EXCEPT !.ub = TRUE]
      ELSE IF FirstChar(str) = Chr("_")
      THEN Res([fr EXCEPT !.type = None, !.typedefnode = 0], h, f)
      ELSE
        Only({
          LET scnew == sc # 0 /\ h1[sc].name = None
              h2 == IF scnew
                    THEN sort_node([h1 EXCEPT ![sc].name = <<NsName(fr, str)>>], fr.tree, sc)
                    ELSE h1
          IN  Res([(IF td # 0 THEN LinkType(fr, Len(h) + 1) ELSE DropType(fr))
                     EXCEPT !.typedefnode = 0, !.structclass = IF scnew THEN 0 ELSE @],
                  IF td # 0 THEN NewTypeFirst(h2, td, toks) ELSE h2, f)
          : h1 \in {IF td # 0
                    THEN sort_node([h EXCEPT ![td].name = <<NsName(fr, str)>>], fr.tree, td)
                    ELSE h} })

\* "typedef type name" followed by ';' : a simple typedef.
SimpleTypedef(fr, h, f, str, toks) ==
  LET td == Len(h) + 1
      left == Tail(toks)
  IN  Res([LinkType(fr, td + 1) EXCEPT !.typedefnode = td],
          NewType(sort_node([mxmlNewElement(h, 0, "typedef")
                               EXCEPT ![td].name = <<NsName(fr, str)>>], fr.tree, td),
                  td, IF left # <<>> THEN clear_whitespace(left) ELSE left),
          f)

\* "type name" followed by ';' : a variable, dropped when static at file scope.
NewVariable(fr, h, f, str, toks) ==
  LET word == IF QualifyHere(fr, fr.fstructclass) THEN Qualified(fr.nsname[1], str) ELSE str
  IN  IF toks[1].s = S_static /\ h[fr.tree].elem = "codedoc" THEN Res(DropType(fr), h, f)
      ELSE
        Only({ IF av.ub THEN [Res(fr, h, f) EXCEPT !.ub = TRUE]
               ELSE Only({ Res([LinkType(fr, Len(av.heap)) EXCEPT !.variable = av.id],
                               IF fr.scope # None /\ av.id # 0
                               THEN [h1 EXCEPT ![av.id].scope = fr.scope]
                               ELSE h1,
                               f)
                           : h1 \in {sort_node(av.heap, fr.tree, av.id)} })
               : av \in {add_variable(h, 0, "variable",
                                      Append(toks, Tok(SpaceBefore(toks), word)))} })

\* An identifier met inside the braces of a pending enumeration: a constant.
NewConstant(fr, h, f, str) ==
  LET c == Len(h) + 1
  IN  IF h[fr.enumeration].elem = "FREE" THEN [Res(fr, h, f) EXCEPT !.ub = TRUE]
      ELSE Res([fr EXCEPT !.constant = c],
               sort_node([mxmlNewElement(h, 0, "constant") EXCEPT ![c].name = <<NsName(fr, str)>>],
                         fr.enumeration, c), f)

\* The identifier in the buffer ends at ch, which is pushed back.
IdentifierEnd(fr0, h, f0, ch) ==
  LET str == fr0.buffer
      f == filebuf_ungetc(f0, ch)
      fr == [fr0 EXCEPT !.state = "NONE"]
      toks == IF fr0.type = None THEN <<>> ELSE fr0.type[1]
      made == [fr0 EXCEPT !.state = "NONE", !.type = <<toks>>]
  IN  IF fr.braces = 0
      THEN IF str = S_namespace THEN Res([fr EXCEPT !.nskeyword = 1], h, f)
           ELSE IF fr.nskeyword # 0
           THEN Res([fr EXCEPT !.nsnamestr =
                                 SubSeq(str, 1, IF Len(str) < 1023 THEN Len(str) ELSE 1023)],
                    h, f)
           ELSE IF toks = <<>> /\ h[fr.tree].elem = "class" /\ ScopeLabel(str) # None
           THEN Res([fr EXCEPT !.scope = ScopeLabel(str)], h, f)
           ELSE IF fr.function = 0 /\ ch = Chr("(")
           THEN IF toks # <<>> /\ toks[1].s = S_extern THEN Res(DropType(made), h, f)
                ELSE NewFunction(made, h, f, str, toks)
           ELSE IF fr.function # 0 /\ ((ch = Chr(")") /\ fr.parens = 1) \/ ch = Chr(","))
           THEN NewArgument(made, h, f, str, toks)
           ELSE IF toks # <<>> /\ fr.function = 0 /\ fr.parens = 0 /\ ch \in {Chr(";"), Chr(",")}
           THEN IF fr.typedefnode # 0 \/ fr.structclass # 0
                THEN TypedefName(made, h, f, str, toks)
                ELSE IF toks[1].s = S_typedef THEN SimpleTypedef(made, h, f, str, toks)
                ELSE NewVariable(made, h, f, str, toks)
           ELSE Res([fr EXCEPT !.type = <<Append(toks, Tok(SpaceBefore(toks), str))>>], h, f)
      ELSE IF fr.enumeration # 0 /\ ~IsDigit(FirstChar(str)) THEN NewConstant(fr, h, f, str)
      ELSE Res(DropType(fr), h, f)

\* case STATE_IDENTIFIER
Identifier(fr, h, f, ch) ==
  IF ContinuesIdentifier(fr, ch)
  THEN Res([fr EXCEPT !.buffer = stringbuf_append(@, ch).buf], h, f)
  ELSE IdentifierEnd(fr, h, f, ch)

(***************************************************************************)
(* The tree as a value                                                     *)
(***************************************************************************)
RECURSIVE TreeVal(_, _)
\* The subtree below node id without its addresses: what mxmlSaveFile writes.
TreeVal(h, id) ==
  [elem |-> h[id].elem, name |-> h[id].name, scope |-> h[id].scope,
   direction |-> h[id].direction, dflt |-> h[id].dflt, parentattr |-> h[id].parentattr,
   toks |-> h[id].toks, opq |-> h[id].opq,
   kids |-> [i \in 1..Len(h[id].kids) |-> TreeVal(h, h[id].kids[i])]]

\* The nodes reachable from the <codedoc> element.
InTree(h) == Descendants(h, RootId)

(***************************************************************************)
(* main and the loop of scan_file                                          *)
(***************************************************************************)
\* The innermost scan_file invocation.
Top == stack[Len(stack)]

\* while ((ch = filebuf_getc(file)) != EOF)
Got == filebuf_getc(file)

\* The loop body runs in state st on the character g that filebuf_getc returned.
Scanning(g, st) ==
  /\ ~g.exit
  /\ g.ch # EOF
  /\ Top.state = st

\* scan_file returns 1: to the invocation that called it, else to main, which
\* closes the file and goes on to the next argument.
Return(fr, h, f) ==
  /\ heap' = h
  /\ file' = f
  /\ IF Len(stack) > 1
     THEN /\ stack' = SubSeq(stack, 1, Len(stack) - 2)
                        \o <<AfterCall(stack[Len(stack) - 1], fr.ret)>>
          /\ UNCHANGED <<mainpc, hist>>
     ELSE /\ stack' = <<>>
          /\ mainpc' = [mainpc EXCEPT !.status = "open", !.i = @ + 1]
          /\ hist' = Append(hist, TreeVal(h, RootId))

\* What one pass through the loop body does to the program state.
Commit(res) ==
  \E r \in {res} :
      /\ body' = body \o r.body
      /\ UNCHANGED sortlog
      /\ IF r.exit
         THEN /\ mainpc' = [mainpc EXCEPT !.status = "exit"]
              /\ file' = r.file
              /\ UNCHANGED <<heap, stack, hist>>
         ELSE IF r.ub
         THEN /\ mainpc' = [mainpc EXCEPT !.status = "crash"]
              /\ UNCHANGED <<heap, file, stack, hist>>
         ELSE IF r.call # None
         THEN /\ heap' = r.heap
              /\ file' = r.file
              /\ stack' = SubSeq(stack, 1, Len(stack) - 1)
                            \o <<r.fr, NewFrame(r.heap, r.call[1].tree, r.call[1].nsname, r.call[1].ret)>>
              /\ UNCHANGED <<mainpc, hist>>
         ELSE IF r.ret
         THEN Return(r.fr, r.heap, r.file)
         ELSE /\ heap' = r.heap
              /\ file' = r.file
              /\ stack' = [stack EXCEPT ![Len(stack)] = r.fr]
              /\ UNCHANGED <<mainpc, hist>>

\* main: the next argument is a source file.
MainOpen ==
  /\ mainpc.status = "open"
  /\ mainpc.i <= Len(mainpc.argv)
  /\ file' = filebuf_open(mainpc.argv[mainpc.i])
  /\ stack' = <<NewFrame(heap, RootId, None, "main")>>
  /\ mainpc' = [mainpc EXCEPT !.status = "scan"]
  /\ UNCHANGED <<heap, body, hist, sortlog>>

\* main: no argument is left.
MainDone ==
  /\ mainpc.status = "open"
  /\ mainpc.i > Len(mainpc.argv)
  /\ mainpc' = [mainpc EXCEPT !.status = "done"]
  /\ UNCHANGED <<heap, file, stack, body, hist, sortlog>>

\* filebuf_getc meets an illegal character and exits.
ScanFatal ==
  /\ mainpc.status = "scan"
  /\ \E g \in {Got} :
       /\ g.exit
       /\ mainpc' = [mainpc EXCEPT !.status = "exit"]
       /\ file' = g.file
       /\ UNCHANGED <<heap, stack, body, hist, sortlog>>

\* filebuf_getc returns EOF: the loop ends and scan_file returns.
ScanEOF ==
  /\ mainpc.status = "scan"
  /\ \E g \in {Got} :
       /\ ~g.exit
       /\ g.ch = EOF
       /\ Return(Top, heap, g.file)
       /\ UNCHANGED <<body, sortlog>>

ScanNoneSlash ==
  /\ mainpc.status = "scan"
  /\ \E g \in {Got} :
       Scanning(g, "NONE") /\ g.ch = Chr("/") /\ Commit(NoneSlash(Top, heap, g.file))

ScanNoneHash ==
  /\ mainpc.status = "scan"
  /\ \E g \in {Got} :
       Scanning(g, "NONE") /\ g.ch = Chr("#") /\ Commit(NoneHash(Top, heap, g.file))

ScanNoneQuote ==
  /\ mainpc.status = "scan"
  /\ \E g \in {Got} :
       Scanning(g, "NONE") /\ g.ch = 39 /\ Commit(NoneQuote(Top, heap, g.file))

ScanNoneDoubleQuote ==
  /\ mainpc.status = "scan"
  /\ \E g \in {Got} :
       Scanning(g, "NONE") /\ g.ch = 34 /\ Commit(NoneDoubleQuote(Top, heap, g.file))

ScanNoneOpenBrace ==
  /\ mainpc.status = "scan"
  /\ \E g \in {Got} :
       Scanning(g, "NONE") /\ g.ch = Chr("{") /\ Commit(NoneOpenBrace(Top, heap, g.file))

ScanNoneCloseBrace ==
  /\ mainpc.status = "scan"
  /\ \E g \in {Got} :
       Scanning(g, "NONE") /\ g.ch = Chr("}") /\ Commit(NoneCloseBrace(Top, heap, g.file))

ScanNoneOpenParen ==
  /\ mainpc.status = "scan"
  /\ \E g \in {Got} :
       Scanning(g, "NONE") /\ g.ch = Chr("(") /\ Commit(NoneOpenParen(Top, heap, g.file))

ScanNoneCloseParen ==
  /\ mainpc.status = "scan"
  /\ \E g \in {Got} :
       Scanning(g, "NONE") /\ g.ch = Chr(")") /\ Commit(NoneCloseParen(Top, heap, g.file))

ScanNoneSemicolon ==
  /\ mainpc.status = "scan"
  /\ \E g \in {Got} :
       Scanning(g, "NONE") /\ g.ch = Chr(";") /\ Commit(NoneSemicolon(Top, heap, g.file))

ScanNoneOperator ==
  /\ mainpc.status = "scan"
  /\ \E g \in {Got} :
       /\ Scanning(g, "NONE")
       /\ g.ch \in {Chr("*"), Chr("+"), Chr("-"), Chr("=")}
       /\ Commit(NoneOperator(Top, heap, g.file, g.ch))

ScanNoneSpaced ==
  /\ mainpc.status = "scan"
  /\ \E g \in {Got} :
       /\ Scanning(g, "NONE")
       /\ g.ch \in {Chr(":"), Chr("&")}
       /\ Commit(NoneSpaced(Top, heap, g.file, g.ch))

ScanNoneComma ==
  /\ mainpc.status = "scan"
  /\ \E g \in {Got} :
       Scanning(g, "NONE") /\ g.ch = Chr(",") /\ Commit(NoneComma(Top, heap, g.file))

ScanNoneDefault ==
  /\ mainpc.status = "scan"
  /\ \E g \in {Got} :
       /\ Scanning(g, "NONE")
       /\ g.ch \notin {Chr("/"), Chr("#"), 39, 34, Chr("{"), Chr("}"), Chr("("), Chr(")"), Chr(";"),
                       Chr(":"), Chr("*"), Chr(","), Chr("&"), Chr("+"), Chr("-"), Chr("=")}
       /\ Commit(NoneDefault(Top, heap, g.file, g.ch))

ScanPreprocessor ==
  /\ mainpc.status = "scan"
  /\ \E g \in {Got} :
       Scanning(g, "PREPROCESSOR") /\ Commit(Preprocessor(Top, heap, g.file, g.ch))

ScanCCommentNewline ==
  /\ mainpc.status = "scan"
  /\ \E g \in {Got} :
       /\ Scanning(g, "C_COMMENT")
       /\ g.ch = 10
       /\ \E drop \in ChildTest(Top, heap) : Commit(CCommentLines(Top, heap, g.file, drop))

ScanCCommentChar ==
  /\ mainpc.status = "scan"
  /\ \E g \in {Got} :
       /\ Scanning(g, "C_COMMENT")
       /\ g.ch # 10
       /\ Commit(CCommentChar(Top, heap, g.file, g.ch))

ScanCxxComment ==
  /\ mainpc.status = "scan"
  /\ \E g \in {Got} :
       Scanning(g, "CXX_COMMENT") /\ Commit(CxxComment(Top, heap, g.file, g.ch))

ScanString ==
  /\ mainpc.status = "scan"
  /\ \E g \in {Got} :
       Scanning(g, "STRING") /\ Commit(Literal(Top, heap, g.file, g.ch, 34))

ScanCharacter ==
  /\ mainpc.status = "scan"
  /\ \E g \in {Got} :
       Scanning(g, "CHARACTER") /\ Commit(Literal(Top, heap, g.file, g.ch, 39))

ScanIdentifier ==
  /\ mainpc.status = "scan"
  /\ \E g \in {Got} :
       Scanning(g, "IDENTIFIER") /\ Commit(Identifier(Top, heap, g.file, g.ch))

(***************************************************************************)
(* The scanner run by main over its arguments                              *)
(***************************************************************************)
\* Each run scans the same source file this many times.
MaxScans == 2

\* T name(int a, char *b) { }
FuncDef(T, name, args) ==
  T \o Str(" ") \o name \o Str("(int ") \o args[1] \o Str(", char *") \o args[2] \o Str(") { }")

\* Function definitions at file scope: their return types, names and arguments.
FuncDefs ==
  {[T |-> T, name |-> n, args |-> ab, text |-> FuncDef(T, n, ab)] :
     T \in {Str("void"), Str("int"), Str("char *"), Str("inline void"), Str("extern int")},
     n \in {Str("f"), Str("get2")},
     ab \in {<<Str("p"), Str("q")>>, <<Str("q"), Str("p")>>}}

\* A function definition directly preceded by one comment.
DocFuncs ==
  {[T |-> T, name |-> Str("f"), doc |-> Str("Doc"),
    text |-> Str("/* Doc */ ") \o T \o Str(" f(void) { }")] :
     T \in {Str("void"), Str("int"), Str("char *")}}

\* The ways to write a comment that holds the @private@ directive.
PrivateComments ==
  {Str("/* @private@ */"), Str("/*\n * @private@\n */\n"), Str("// @private@\n")}

\* Declarations with a @private@ comment: before a function, after a simple
\* typedef, a variable or a constant.
PrivateDecls ==
  UNION {
    {[kind |-> "function", name |-> Str("f"), text |-> c \o Str("void f(void) { }")],
     [kind |-> "function", name |-> Str("g"), text |-> c \o Str("int g(int a) { }")],
     [kind |-> "typedef", name |-> Str("t"), text |-> Str("typedef int t; ") \o c],
     [kind |-> "variable", name |-> Str("x"), text |-> Str("int x; ") \o c],
     [kind |-> "constant", name |-> Str("A"), text |-> Str("enum e { A, ") \o c \o Str(" B };")]} :
    c \in PrivateComments}

\* typedef enum with and without a tag, preceded by a comment.
EnumTypedefs ==
  {[tag |-> None, doc |-> Str("Doc"), text |-> Str("/* Doc */ typedef enum { B, A } name_t;")],
   [tag |-> <<Str("name_e")>>, doc |-> Str("Doc"),
    text |-> Str("/* Doc */ typedef enum name_e { B, A } name_t;")],
   [tag |-> <<Str("name_e")>>, doc |-> Str("The 'name_t' type."),
    text |-> Str("/*\n * The 'name_t' type.\n */\ntypedef enum name_e\n{\n  A,\n  B\n} name_t;\n")]}

\* A function declared and a function defined in a namespace body.
NamespaceFuncs ==
  {[defined |-> FALSE, text |-> Str("namespace NS { void f(void); }")],
   [defined |-> TRUE, text |-> Str("namespace NS { void f(void) { } }")],
   [defined |-> TRUE, text |-> Str("namespace NS\n{\n  void f(void)\n  {\n  }\n}\n")]}

\* Static declarations, at file scope and in a class body.
StaticDecls ==
  UNION {
    {[where |-> "root", scope |-> None, kind |-> d.kind, name |-> d.name, text |-> d.text],
     [where |-> "class", scope |-> <<"private">>, kind |-> d.kind, name |-> d.name,
      text |-> Str("class C { ") \o d.text \o Str(" };")],
     [where |-> "class", scope |-> <<"public">>, kind |-> d.kind, name |-> d.name,
      text |-> Str("class C { public: ") \o d.text \o Str(" };")]} :
    d \in {[kind |-> "function", name |-> Str("f"), text |-> Str("static int f(void) { }")],
           [kind |-> "function", name |-> Str("g"), text |-> Str("static void g(int a) { }")],
           [kind |-> "variable", name |-> Str("x"), text |-> Str("static int x;")],
           [kind |-> "variable", name |-> Str("s"), text |-> Str("static char *s = 0;")]}}

\* Comments that begin with @body@: a C comment closed on the line of its
\* text, a C comment closed on a later line and a C++ comment, before a
\* function and after a variable.
BodyComments ==
  {[pending |-> FALSE, text |-> c \o Str("void f(void) { }")] :
     c \in {Str("/* @body@ Text */\n"), Str("/* @body@ Text\n */\n"), Str("// @body@ Text\n")}}
  \cup
  {[pending |-> TRUE, text |-> Str("int x;\n") \o c] :
     c \in {Str("/* @body@ Text\n */\n"), Str("// @body@ Text\n")}}

\* Declarations followed by the comment that describes them, the comment
\* closing on the same line, on a later line, or being a C++ comment.
CommentedDecls ==
  {Str("typedef int t; ") \o c : c \in {Str("/* T */\n"), Str("/* T\n */\n"), Str("// T\n")}}
  \cup {Str("enum e { A, ") \o c \o Str("B };") :
          c \in {Str("/* One */\n"), Str("/* One\n */\n"), Str("// One\n")}}
  \cup {Str("void f(int a, ") \o c \o Str("int b) { }") :
          c \in {Str("/* I - A */\n"), Str("/* I - A\n */\n"), Str("// I - A\n")}}
  \cup {Str("typedef int t;\nvoid f(int a) ") \o c \o Str("{ }") :
          c \in {Str("/* A */\n"), Str("/* A\n */\n"), Str("// A\n")}}
  \cup {Str("typedef enum e { A, ") \o c \o Str("B } e_t;") :
          c \in {Str("/* One */\n"), Str("/* One\n */\n"), Str("// One\n")}}
  \cup {Str("typedef enum { A } ") \o c \o Str("e_t;") :
          c \in {Str("/* E */\n"), Str("/* E\n */\n"), Str("// E\n")}}
  \cup {Str("int v; /* @private@ */\n"),
        Str("typedef enum e { A /* @private@ */ } e_t;"),
        Str("/* Pending */\n// @body@ Text\nint v;")}

\* One declaration of each kind in a namespace body.
NamespaceDecls ==
  {[kind |-> d.kind, text |-> Str("namespace NS {\n") \o d.text \o Str("\n}\n")] :
     d \in {[kind |-> "function", text |-> Str("int f(int a) { }")],
            [kind |-> "typedef", text |-> Str("typedef int t;")],
            [kind |-> "fptypedef", text |-> Str("typedef int (*cb_t)(int a);")],
            [kind |-> "struct", text |-> Str("struct s { int m; };")],
            [kind |-> "class", text |-> Str("class c { int m; };")],
            [kind |-> "union", text |-> Str("union u { int m; };")],
            [kind |-> "enumeration", text |-> Str("enum e { A };")],
            [kind |-> "variable", text |-> Str("int v;")]}}

\* Functions whose last parameter does not end with an identifier.
CloseParenDecls ==
  {Str("void f(int one, const char *two = \"2\") { }\nint v;"),
   Str("void f(char *) { }\nint v;")}

\* An enumeration, plain or in a typedef, followed by a function body that
\* mentions another identifier.
EnumThenBody ==
  {[typedef |-> FALSE, text |-> Str("enum e { A, B };\nvoid f(void) { x; }")],
   [typedef |-> TRUE, text |-> Str("typedef enum e { A, B } e_t;\nvoid f(void) { x; }")]}

\* Members after scope labels in class, struct and union bodies and at file
\* scope, with the scope each member is to get.
ScopedMembers ==
  {[text |-> Str("class C { int a; public: int b; void f(void) { } protected: int c; void g(int x); private: int d; };"),
    members |-> {[name |-> Str("a"), scope |-> <<"private">>],
                 [name |-> Str("b"), scope |-> <<"public">>],
                 [name |-> Str("f"), scope |-> <<"public">>],
                 [name |-> Str("c"), scope |-> <<"protected">>],
                 [name |-> Str("g"), scope |-> <<"protected">>],
                 [name |-> Str("d"), scope |-> <<"private">>]}],
   [text |-> Str("class C { public: class D { int x; protected: int z; }; int y; };"),
    members |-> {[name |-> Str("x"), scope |-> <<"private">>],
                 [name |-> Str("z"), scope |-> <<"protected">>],
                 [name |-> Str("y"), scope |-> <<"public">>]}],
   [text |-> Str("class C { protected: struct S { int x; }; int y; };"),
    members |-> {[name |-> Str("x"), scope |-> None],
                 [name |-> Str("y"), scope |-> <<"protected">>]}],
   [text |-> Str("struct S { public: int m; void f(void) { } };"),
    members |-> {[name |-> Str("m"), scope |-> None], [name |-> Str("f"), scope |-> None]}],
   [text |-> Str("union U { private: int m; };"),
    members |-> {[name |-> Str("m"), scope |-> None]}],
   [text |-> Str("public: int v;\nvoid f(void) { }"),
    members |-> {[name |-> Str("v"), scope |-> None], [name |-> Str("f"), scope |-> None]}]}

\* Classes with a base specification of two and of three tokens.
BaseSpecs ==
  {[text |-> Str("class D : B { int m; };"), parent |-> Str(": B")],
   [text |-> Str("class D : public B { int m; };"), parent |-> Str(": public B")]}

\* A namespace body, a struct body and an extern block, each followed by a
\* declaration at file scope.
NestedBlocks ==
  {[kind |-> "namespace", text |-> Str("namespace NS {\nint v;\n}\nint w;")],
   [kind |-> "scu", text |-> Str("struct s {\nint v;\n};\nint w;")],
   [kind |-> "extern", text |-> Str("extern \"C\" {\nint v;\n}\nint w;")]}

\* A declaration followed by a comment that describes it, and then a
\* function that has no comment of its own.
TrailingComments ==
  {[kind |-> "variable", text |-> Str("int v; /* c */\nvoid f(void) { }")],
   [kind |-> "typedef", text |-> Str("typedef int t; /* c */\nvoid f(void) { }")],
   [kind |-> "constant", text |-> Str("enum e { A /* c */ };\nvoid f(void) { }")]}

\* A '}' at file level that closes nothing, between two declarations.
StrayBraces == {Str("int v;\n}\nint w;")}

\* Inputs that end where the code reads ahead, so that EOF is pushed back:
\* after a '/', after the '*' of an open comment, after the newline and the
\* '/' of a C++ comment.
ReadAheadAtEOF ==
  {Str("int v; /"), Str("/* a\n *"), Str("// a\n/"), Str("// a\n// b\n"), Str("int v")}

\* Other source files.
OtherPrograms ==
  { Str("typedef int z_t;\nint b;"),
    Str("void f(int _x) { }"),
    Str("int _v;\nvoid _f(void) { }\nenum e { _A, B };"),
    Str("#include <a.h>\n#define X \\\n 1\nint v; // one\n  // two\n"),
    Str("char c = 'a';\nconst char *s = \"x\\n\";"),
    Str("int a = b + c - 1;\nint &r;\nenum e2 { A = 1 , B };"),
    Str("extern \"C\" {\nint v;\n}\nstruct s { int m; /* member */ };"),
    Str("int ") \o <<1>> \o Str(";") }

\* The source files.
Programs ==
  {d.text : d \in FuncDefs} \cup {d.text : d \in DocFuncs} \cup {d.text : d \in PrivateDecls}
    \cup {d.text : d \in EnumTypedefs} \cup {d.text : d \in NamespaceFuncs}
    \cup {d.text : d \in StaticDecls} \cup {d.text : d \in BodyComments} \cup CommentedDecls \cup {d.text : d \in NamespaceDecls}
    \cup CloseParenDecls \cup {d.text : d \in EnumThenBody}
    \cup {d.text : d \in ScopedMembers} \cup {d.text : d \in BaseSpecs}
    \cup {d.text : d \in NestedBlocks} \cup {d.text : d \in TrailingComments}
    \cup StrayBraces \cup ReadAheadAtEOF \cup OtherPrograms

StartOn(argv) ==
  /\ heap = new_documentation
  /\ file = filebuf_open(<<>>)
  /\ stack = <<>>
  /\ mainpc = [status |-> "open", i |-> 1, argv |-> argv]
  /\ body = <<>>
  /\ hist = <<>>
  /\ sortlog = <<>>

Init == \E p \in Programs : StartOn([k \in 1..MaxScans |-> p])

Next ==
  \/ MainOpen
  \/ MainDone
  \/ ScanFatal
  \/ ScanEOF
  \/ ScanNoneSlash
  \/ ScanNoneHash
  \/ ScanNoneQuote
  \/ ScanNoneDoubleQuote
  \/ ScanNoneOpenBrace
  \/ ScanNoneCloseBrace
  \/ ScanNoneOpenParen
  \/ ScanNoneCloseParen
  \/ ScanNoneSemicolon
  \/ ScanNoneOperator
  \/ ScanNoneSpaced
  \/ ScanNoneComma
  \/ ScanNoneDefault
  \/ ScanPreprocessor
  \/ ScanCCommentNewline
  \/ ScanCCommentChar
  \/ ScanCxxComment
  \/ ScanString
  \/ ScanCharacter
  \/ ScanIdentifier

Spec == Init /\ [][Next]_vars

\* The source files scanned under the fairness condition, one scan of each.
LivePrograms ==
  ReadAheadAtEOF \cup StrayBraces \cup CloseParenDecls \cup {d.text : d \in NestedBlocks}
    \cup {d.text : d \in TrailingComments} \cup OtherPrograms

InitLive == \E p \in LivePrograms : StartOn(<<p>>)

\* main and scan_file are sequential code: a step that can be taken is taken.
SpecLive == InitLive /\ [][Next]_vars /\ WF_vars(Next)

(***************************************************************************)
(* sort_node on its own                                                    *)
(***************************************************************************)
\* The number of nodes given to sort_node.
MaxInserts == 3

SortKinds == {"struct", "typedef"}

SortNames == {Str("a"), Str("b"), Str("_c")}

SortScopes == {None, <<"public">>, <<"private">>}

\* A new element with a name and a scope, not yet in the tree.
NewNamed(h, elem, name, scope) ==
  LET h1 == mxmlNewElement(h, 0, elem)
  IN  [h1 EXCEPT ![Len(h1)].name = <<name>>, ![Len(h1)].scope = scope]

RECURSIVE Replay(_, _)
\* The insertions of a log made again, in order.
Replay(h, log) ==
  IF log = <<>> THEN h
  ELSE LET h1 == NewNamed(h, Head(log).elem, Head(log).name, Head(log).scope)
       IN  Replay(sort_node(h1, RootId, Len(h1)), Tail(log))

InitSort ==
  /\ heap = new_documentation
  /\ file = filebuf_open(<<>>)
  /\ stack = <<>>
  /\ mainpc = [status |-> "sort", i |-> 1, argv |-> <<>>]
  /\ body = <<>>
  /\ hist = <<>>
  /\ sortlog = <<>>

\* sort_node(codedoc, node) for a new node.
SortInsert ==
  /\ mainpc.status = "sort"
  /\ Len(sortlog) < MaxInserts
  /\ \E elem \in SortKinds, name \in SortNames, scope \in SortScopes :
       LET h1 == NewNamed(heap, elem, name, scope)
       IN  /\ heap' = sort_node(h1, RootId, Len(h1))
           /\ sortlog' = Append(sortlog, [elem |-> elem, name |-> name, scope |-> scope])
  /\ UNCHANGED <<file, stack, mainpc, body, hist>>

\* The same insertions made again on the child list they produced.
SortReplay ==
  /\ mainpc.status = "sort"
  /\ sortlog # <<>>
  /\ heap' = Replay(heap, sortlog)
  /\ hist' = <<TreeVal(heap, RootId)>>
  /\ mainpc' = [mainpc EXCEPT !.status = "replayed"]
  /\ UNCHANGED <<file, stack, body, sortlog>>

NextSort == SortInsert \/ SortReplay

SpecSort == InitSort /\ [][NextSort]_vars

(***************************************************************************)
(* Properties of sort_node                                                 *)
(***************************************************************************)
\* The name attributes of the named children of a node, in sibling order,
\* each with the element name of the child.
NamedKids(h, parent) ==
  LET ks == SelectSeq(h[parent].kids, LAMBDA k : h[k].name # None)
  IN  [i \in 1..Len(ks) |-> [elem |-> h[ks[i]].elem, name |-> h[ks[i]].name[1]]]

\* C1: under every parent filled by sort_node, two children of the same
\* element kind are in strictly ascending strcmp order of their names, so no
\* two children of one kind have the same name.
SortedWithinKind ==
  \A p \in InTree(heap) :
    LET ns == NamedKids(heap, p)
    IN  \A i, j \in 1..Len(ns) :
          (i < j /\ ns[i].elem = ns[j].elem) => StrCmp(ns[i].name, ns[j].name) < 0

\* A later insertion replaced an earlier node of the same kind and name, and
\* two nodes of one kind are in the tree.
SortedWithinKindWitness ==
  /\ \E i, j \in 1..Len(sortlog) :
       i < j /\ sortlog[i].elem = sortlog[j].elem /\ sortlog[i].name = sortlog[j].name
  /\ LET ns == NamedKids(heap, RootId)
     IN  \E i, j \in 1..Len(ns) : i < j /\ ns[i].elem = ns[j].elem

\* C2 as stated: the names of all named children of a parent, of every kind
\* together, are strictly ascending in sibling order.
SortedAcrossKindsStrictly ==
  \A p \in InTree(heap) :
    LET ns == NamedKids(heap, p)
    IN  \A i, j \in 1..Len(ns) : i < j => StrCmp(ns[i].name, ns[j].name) < 0

\* C2: the names of all named children of a parent, of every kind together,
\* never descend in sibling order, and two children have the same name only
\* when they are of different kinds.
SortedAcrossKinds ==
  \A p \in InTree(heap) :
    LET ns == NamedKids(heap, p)
    IN  \A i, j \in 1..Len(ns) :
          i < j => /\ StrCmp(ns[i].name, ns[j].name) <= 0
                   /\ (ns[i].name = ns[j].name => ns[i].elem # ns[j].elem)

\* A struct and a typedef of the same name are siblings, next to a child
\* with another name.
SortedAcrossKindsWitness ==
  LET ns == NamedKids(heap, RootId)
  IN  /\ \E i, j \in 1..Len(ns) :
           i < j /\ ns[i].name = ns[j].name /\ ns[i].elem # ns[j].elem
      /\ \E i, j \in 1..Len(ns) : ns[i].name # ns[j].name

\* The replay of the insertions leaves the child list as it was.
ReplayUnchanged ==
  mainpc.status = "replayed" => TreeVal(heap, RootId) = hist[1]

(***************************************************************************)
(* Properties of the scan                                                  *)
(***************************************************************************)
RECURSIVE Nodes(_)
\* The nodes of a saved tree.
Nodes(t) == {t} \cup UNION {Nodes(t.kids[i]) : i \in 1..Len(t.kids)}

\* The children of a saved node that are elem elements, in sibling order.
KidsOf(t, elem) == SelectSeq(t.kids, LAMBDA k : k.elem = elem)

\* The children of a saved node that are elem elements with the given name.
KidsNamed(t, elem, name) ==
  SelectSeq(t.kids, LAMBDA k : k.elem = elem /\ k.name = <<name>>)

\* The comment texts held by the description children of a saved node.
DescriptionTexts(t) ==
  {t.kids[i].opq[1] :
     i \in {j \in 1..Len(t.kids) : t.kids[j].elem = "description" /\ t.kids[j].opq # <<>>}}

\* The name attributes of a sequence of saved nodes.
NamesOf(ks) == [i \in 1..Len(ks) |-> ks[i].name[1]]

\* The trees saved after the scans made so far.
Scanned == {hist[k] : k \in 1..Len(hist)}

\* The command line names the source file p.
IsRun(p) == mainpc.argv # <<>> /\ mainpc.argv[1] = p

\* s ends with p.
HasSuffix(s, p) == Len(s) >= Len(p) /\ SubSeq(s, Len(s) - Len(p) + 1, Len(s)) = p

\* C3: no node of the tree, of any kind, has a name that begins with '_'.
NoUnderscoreNames ==
  \A id \in InTree(heap) :
    heap[id].name = None \/ FirstChar(heap[id].name[1]) # Chr("_")

\* C4: the second scan of an unchanged file leaves the tree that the first
\* scan left.
RescanIdempotent ==
  Len(hist) >= 2 => hist[2] = hist[1]

\* C5 as stated: T name(A a, B b) { } at file scope leaves exactly one
\* function node name under the root, with the arguments a then b, and with a
\* returnvalue child exactly when T is not void.
FunctionNodeAsStated ==
  \A d \in FuncDefs : \A t \in Scanned :
    IsRun(d.text) =>
      LET fs == KidsNamed(t, "function", d.name)
      IN  /\ Len(fs) = 1
          /\ NamesOf(KidsOf(fs[1], "argument")) = d.args
          /\ (KidsOf(fs[1], "returnvalue") # <<>>) <=> (d.T # Str("void"))

\* C5: when the first word of T is neither static nor extern,
\* T name(A a, B b) { } at file scope leaves exactly one function node name
\* under the root, with the arguments a then b, and with a returnvalue child
\* exactly when the last word of T is not void; when the first word of T is
\* extern it leaves no function node.
FunctionNode ==
  \A d \in FuncDefs : \A t \in Scanned :
    (IsRun(d.text) /\ ~HasPrefix(d.T, Str("static"))) =>
      LET fs == KidsNamed(t, "function", d.name)
      IN  IF HasPrefix(d.T, Str("extern"))
          THEN \A n \in Nodes(t) : n.elem # "function"
          ELSE /\ Len(fs) = 1
               /\ NamesOf(KidsOf(fs[1], "argument")) = d.args
               /\ (KidsOf(fs[1], "returnvalue") # <<>>) <=> ~HasSuffix(d.T, Str("void"))

\* Two scans of inline void get2(int q, char *p) { } are done and the
\* function is in the tree.
FunctionNodeWitness ==
  /\ IsRun(FuncDef(Str("inline void"), Str("get2"), <<Str("q"), Str("p")>>))
  /\ Len(hist) = MaxScans
  /\ KidsNamed(hist[1], "function", Str("get2")) # <<>>

EnumTypedefBoth ==
  \A d \in EnumTypedefs : \A t \in Scanned :
    IsRun(d.text) =>
      /\ \E td \in Nodes(t) :
           /\ td.elem = "typedef"
           /\ td.name = <<Str("name_t")>>
           /\ DescriptionTexts(td) = {d.doc}
      /\ \E en \in Nodes(t) :
           /\ en.elem = "enumeration"
           /\ DescriptionTexts(en) = {d.doc}
           /\ NamesOf(KidsOf(en, "constant")) = <<Str("A"), Str("B")>>

\* C8 as stated: namespace NS { void f(void); } leaves a function node named
\* NS::f in the tree.
NamespaceDeclaredFunction ==
  \A d \in NamespaceFuncs : \A t \in Scanned :
    (IsRun(d.text) /\ ~d.defined) =>
      \E n \in Nodes(t) : n.elem = "function" /\ n.name = <<Str("NS::f")>>

\* C8: the function definition namespace NS { void f(void) { } } leaves one
\* function node named NS::f in the tree; the declaration
\* namespace NS { void f(void); } leaves no function node.
NamespaceFunction ==
  \A d \in NamespaceFuncs : \A t \in Scanned :
    IsRun(d.text) =>
      IF d.defined
      THEN Len(KidsNamed(t, "function", Str("NS::f"))) = 1
      ELSE \A n \in Nodes(t) : n.elem # "function"

\* The scans of namespace NS { void f(void) { } } are done and NS::f is in
\* the tree.
NamespaceFunctionWitness ==
  /\ IsRun(Str("namespace NS { void f(void) { } }"))
  /\ Len(hist) = MaxScans
  /\ KidsNamed(hist[1], "function", Str("NS::f")) # <<>>

\* C9: a function definition or a variable declaration whose type begins
\* with static is at no time in the tree when it is at file scope; the same
\* declaration in a class body is a child of the class after the scan, with
\* the scope that is current in the class.
StaticElision ==
  \A d \in StaticDecls :
    IsRun(d.text) =>
      IF d.where = "root"
      THEN \A id \in InTree(heap) : heap[id].name # <<d.name>>
      ELSE \A t \in Scanned :
             LET cs == KidsNamed(t, "class", Str("C"))
             IN  /\ Len(cs) = 1
                 /\ Len(KidsNamed(cs[1], d.kind, d.name)) = 1
                 /\ KidsNamed(cs[1], d.kind, d.name)[1].scope = d.scope

\* In the scan of  static int f(void) { }  at file scope the function node
\* exists and is not in the tree.
StaticElisionWitness ==
  /\ IsRun(Str("static int f(void) { }"))
  /\ \E id \in 1..Len(heap) :
       /\ heap[id].elem = "function"
       /\ heap[id].name = <<Str("f")>>
       /\ id \notin InTree(heap)

\* C10: the one comment directly before a function definition is the
\* description of the function node itself, whatever the return type.
CommentDescribesFunction ==
  \A d \in DocFuncs : \A t \in Scanned :
    IsRun(d.text) =>
      LET fs == KidsNamed(t, "function", d.name)
      IN  /\ Len(fs) = 1
          /\ DescriptionTexts(fs[1]) = {d.doc}

(***************************************************************************)
(* update_comment on its own                                               *)
(***************************************************************************)
\* The elements that are given a description.
CommentOwners == {"argument", "function", "returnvalue", "variable"}

\* White space before the text of a comment.
CommentLeads == {Str(""), Str(" ")}

\* Description texts.
CommentTexts == {Str("does X"), Str("Number of bytes")}

\* Comments as they are written in source files: .raw is the comment,
\* .form how it starts, .start the quoted name or the direction, .text the
\* text after the separator, .whole the comment without its white space.
CommentForms ==
  {[form |-> "call", raw |-> w \o Str("'") \o n \o Str("()'") \o sep \o t,
    start |-> n, text |-> t, whole |-> Str("'") \o n \o Str("()'") \o sep \o t] :
     w \in CommentLeads, n \in {Str("foo"), Str("bar_2")},
     sep \in {Str(" - "), Str(" -  ")}, t \in CommentTexts}
  \cup
  {[form |-> "quoted", raw |-> w \o Str("'") \o n \o Str("'") \o sep \o t,
    start |-> n, text |-> t, whole |-> Str("'") \o n \o Str("'") \o sep \o t] :
     w \in CommentLeads, n \in {Str("foo"), Str("foo(int)"), Str("a b")},
     sep \in {Str(" - "), Str(" -  ")}, t \in CommentTexts}
  \cup
  {[form |-> "direction", raw |-> w \o d \o Str(" ") \o sep \o t,
    start |-> d, text |-> t, whole |-> d \o Str(" ") \o sep \o t] :
     w \in CommentLeads, d \in {Str("I"), Str("O"), Str("IO")},
     sep \in {Str(""), Str("- "), Str("-")}, t \in CommentTexts}
  \cup
  {[form |-> "plain", raw |-> w \o t, start |-> Str(""), text |-> t, whole |-> t] :
     w \in CommentLeads, t \in CommentTexts}

\* The node that receives the description.
OwnerId == 2

InitComment ==
  /\ \E c \in CommentForms, elem \in CommentOwners :
       /\ heap = mxmlNewElement(new_documentation, 0, elem)
       /\ mainpc = [status |-> "comment", i |-> 1, argv |-> <<c>>]
  /\ file = filebuf_open(<<>>)
  /\ stack = <<>>
  /\ body = <<>>
  /\ hist = <<>>
  /\ sortlog = <<>>

\* description = mxmlNewElement(owner, "description");
\* update_comment(owner, mxmlNewOpaque(description, commstr));
UpdateComment ==
  /\ mainpc.status = "comment"
  /\ heap' = Describe(heap, OwnerId, mainpc.argv[1].raw)
  /\ mainpc' = [mainpc EXCEPT !.status = "updated"]
  /\ UNCHANGED <<file, stack, body, hist, sortlog>>

NextComment == UpdateComment

SpecComment == InitComment /\ [][NextComment]_vars

\* The comment just given to update_comment.
Updated == mainpc.argv[1]

\* The text of the description that update_comment left.
UpdatedText == heap[heap[OwnerId].kids[1]].opq[1]

\* C11: update_comment reduces 'name()' - text to text, and leaves a quoted
\* start that does not end with () in the description.
LegacyCallReduced ==
  mainpc.status = "updated" =>
    /\ Updated.form = "call" => UpdatedText = Updated.text
    /\ Updated.form = "quoted" => UpdatedText = Updated.whole

\* update_comment was given  'foo()' - does X  after a space.
LegacyCallReducedWitness ==
  /\ mainpc.status = "updated"
  /\ Updated.raw = Str(" 'foo()' - does X")
  /\ UpdatedText = Str("does X")

\* C12 as stated: update_comment reduces 'name' - text to text, as it does
\* for 'name()' - text.
LegacyQuotedReduced ==
  (mainpc.status = "updated" /\ Updated.form = "quoted") => UpdatedText = Updated.text

\* C12: update_comment does not reduce 'name' - text: the description is the
\* whole comment, quoted name and separator included.
LegacyQuotedKept ==
  (mainpc.status = "updated" /\ Updated.form = "quoted") =>
    /\ UpdatedText # Updated.text
    /\ HasPrefix(UpdatedText, Str("'") \o Updated.start \o Str("'"))
    /\ HasSuffix(UpdatedText, Updated.text)

\* update_comment was given  'foo' - does X.
LegacyQuotedKeptWitness ==
  /\ mainpc.status = "updated"
  /\ Updated.raw = Str("'foo' - does X")
  /\ UpdatedText = Str("'foo' - does X")

\* C18: for a comment that begins with I, O or IO and a space, the direction
\* attribute is set, to that marker, only when the owner is an argument; the
\* description is what follows the marker and an optional - separator; an
\* owner that is not an argument never gets a direction.
DirectionOnlyOnArgument ==
  mainpc.status = "updated" =>
    /\ Updated.form = "direction" =>
         /\ UpdatedText = Updated.text
         /\ heap[OwnerId].direction =
              IF heap[OwnerId].elem = "argument" THEN <<Updated.start>> ELSE None
    /\ heap[OwnerId].elem # "argument" => heap[OwnerId].direction = None

\* update_comment was given  IO - Number of bytes  for an argument.
DirectionOnlyOnArgumentWitness ==
  /\ mainpc.status = "updated"
  /\ Updated.raw = Str("IO - Number of bytes")
  /\ heap[OwnerId].elem = "argument"
  /\ heap[OwnerId].direction = <<Str("IO")>>

\* C13: a comment that begins with @body@ is appended to the body and is at
\* no time the description of a node or one of the pending comments, however
\* the comment is written and whether or not a variable is pending.
BodyCommentDiverted ==
  \A d \in BodyComments :
    IsRun(d.text) =>
      /\ \A id \in 1..Len(heap) : \A k \in 1..Len(heap[id].opq) :
           ~StrStr(heap[id].opq[k], S_body)
      /\ \A i \in 1..Len(stack) : \A k \in 1..Len(stack[i].comment) :
           ~StrStr(stack[i].comment[k], S_body)
      /\ Len(hist) >= 1 => body # <<>>

\* The sibling that the last sort_node call replaced, or 0: the call was
\* for a node that is not hidden and a child of its kind and name was there.
Replaced ==
  IF Len(sortlog') = Len(sortlog) + 1
       /\ FirstChar(sortlog'[Len(sortlog')].name) # Chr("_")
  THEN FindNamed(heap, RootId, sortlog'[Len(sortlog')].elem, sortlog'[Len(sortlog')].name)
  ELSE 0

\* C16: when sort_node replaces a sibling of the same kind and name, the new
\* node has the old sibling's scope if it has none of its own and keeps its
\* own scope otherwise; the old sibling is removed, and every other sibling
\* stays as it was, in the same order.
ReplaceKeepsScope ==
  [][Replaced # 0 =>
       /\ heap'[Len(heap) + 1].scope =
            IF sortlog'[Len(sortlog')].scope # None THEN sortlog'[Len(sortlog')].scope
            ELSE heap[Replaced].scope
       /\ heap'[Len(heap) + 1].parent = RootId
       /\ heap'[Replaced].elem = "FREE"
       /\ SeqWithout(heap'[RootId].kids, Len(heap) + 1) = SeqWithout(heap[RootId].kids, Replaced)
       /\ \A k \in 2..Len(heap) : k # Replaced => heap'[k] = heap[k]]_vars

\* The last node given to sort_node had no scope and replaced a sibling that
\* had one; another sibling is in the tree.
ReplaceKeepsScopeWitness ==
  /\ mainpc.status = "sort"
  /\ \E i \in 1..(Len(sortlog) - 1) :
       /\ sortlog[i].elem = sortlog[Len(sortlog)].elem
       /\ sortlog[i].name = sortlog[Len(sortlog)].name
       /\ sortlog[i].scope # None
       /\ sortlog[Len(sortlog)].scope = None
       /\ heap[Len(heap)].scope = sortlog[i].scope
  /\ Len(heap[RootId].kids) >= 2

(***************************************************************************)
(* filebuf_getc and filebuf_ungetc on their own: a file of a few bytes is  *)
(* read character by character, and a character that was just returned    *)
(* may be saved again with filebuf_ungetc, as scan_file does when a        *)
(* character ends an identifier.  hist holds the calls made so far.        *)
(***************************************************************************)

\* The longest file of arbitrary bytes, and the most calls made on one file.
MaxFileLen == 2
MaxFileCalls == 5

\* Bytes of every class filebuf_getc tells apart: ASCII, the control
\* characters around the refused ranges, continuation bytes, and lead bytes
\* of two, three and four byte sequences and beyond.
FileBytes ==
  {6, 7, 8, 10, 13, 14, 31, 32, 65, 127, 128, 129, 130, 152, 159, 169, 172, 191,
   192, 195, 196, 226, 240, 247, 248, 255}

\* Longer files: whole and cut-off sequences followed by another character.
FileSamples ==
  {<<196, 129, 128>>, <<65, 196, 129, 66>>, <<226, 130, 172, 65>>, <<226, 130, 65>>,
   <<240, 159, 152, 128, 10>>, <<240, 159, 152>>, <<240, 159, 152, 65>>,
   <<95, 226, 128, 148, 32>>}

FileInputs == UNION {[1..n -> FileBytes] : n \in 0..MaxFileLen} \cup FileSamples

InitFile ==
  /\ \E data \in FileInputs : file = filebuf_open(data)
  /\ mainpc = [status |-> "file", i |-> 0, argv |-> <<>>]
  /\ heap = new_documentation
  /\ stack = <<>>
  /\ body = <<>>
  /\ hist = <<>>
  /\ sortlog = <<>>

\* ch = filebuf_getc(file) returns a character or EOF.
FileGetc ==
  /\ mainpc.status = "file"
  /\ Len(hist) < MaxFileCalls
  /\ \E g \in {filebuf_getc(file)} :
       /\ ~g.exit
       /\ file' = g.file
       /\ hist' = Append(hist, [call |-> "getc", ch |-> g.ch, pos |-> file.pos,
                                saved |-> file.ch, exit |-> FALSE])
  /\ UNCHANGED <<heap, stack, mainpc, body, sortlog>>

\* filebuf_getc(file) reports an illegal character and calls exit(1).
FileFatal ==
  /\ mainpc.status = "file"
  /\ Len(hist) < MaxFileCalls
  /\ \E g \in {filebuf_getc(file)} :
       /\ g.exit
       /\ file' = g.file
       /\ hist' = Append(hist, [call |-> "getc", ch |-> g.ch, pos |-> file.pos,
                                saved |-> file.ch, exit |-> TRUE])
  /\ mainpc' = [mainpc EXCEPT !.status = "exit"]
  /\ UNCHANGED <<heap, stack, body, sortlog>>

\* filebuf_ungetc(file, ch) with the character the last call returned.
FileUngetc ==
  /\ mainpc.status = "file"
  /\ Len(hist) < MaxFileCalls
  /\ hist # <<>>
  /\ hist[Len(hist)].call = "getc"
  /\ hist[Len(hist)].ch # EOF
  /\ file' = filebuf_ungetc(file, hist[Len(hist)].ch)
  /\ hist' = Append(hist, [call |-> "ungetc", ch |-> hist[Len(hist)].ch, pos |-> file.pos,
                           saved |-> file.ch, exit |-> FALSE])
  /\ UNCHANGED <<heap, stack, mainpc, body, sortlog>>

NextFile == FileGetc \/ FileFatal \/ FileUngetc

SpecFile == InitFile /\ [][NextFile]_vars

\* C19: a character saved with filebuf_ungetc is what the next filebuf_getc
\* returns, whatever its code point, and the filebuf_getc after that reads
\* the character of the file that was next when the character was saved.
PushbackRoundTrip ==
  /\ \A i \in 1..(Len(hist) - 1) :
       hist[i].call = "ungetc" /\ hist[i + 1].call = "getc" =>
         ~hist[i + 1].exit /\ hist[i + 1].ch = hist[i].ch
  /\ \A i \in 1..(Len(hist) - 2) :
       hist[i].call = "ungetc" /\ hist[i + 1].call = "getc" /\ hist[i + 2].call = "getc" =>
         hist[i + 2].saved = 0 /\ hist[i + 2].pos = hist[i].pos

\* The byte of the file after the first p bytes, or EOF.
ByteAt(p) == IF p < Len(file.data) THEN file.data[p + 1] ELSE EOF

\* The continuation bytes the lead byte b asks for; 4 stands for a byte that
\* cannot lead a sequence.
Continuations(b) ==
  IF b < 128 THEN 0
  ELSE IF b \in 192..223 THEN 1
  ELSE IF b \in 224..239 THEN 2
  ELSE IF b \in 240..247 THEN 3
  ELSE 4

\* The code point of the well-formed sequence after the first p bytes.
CodePointAt(p) ==
  IF Continuations(ByteAt(p)) = 0 THEN ByteAt(p)
  ELSE IF Continuations(ByteAt(p)) = 1
  THEN (ByteAt(p) - 192) * 64 + (ByteAt(p + 1) - 128)
  ELSE IF Continuations(ByteAt(p)) = 2
  THEN (ByteAt(p) - 224) * 4096 + (ByteAt(p + 1) - 128) * 64 + (ByteAt(p + 2) - 128)
  ELSE (ByteAt(p) - 240) * 262144 + (ByteAt(p + 1) - 128) * 4096
       + (ByteAt(p + 2) - 128) * 64 + (ByteAt(p + 3) - 128)

\* The sequence after the first p bytes is one filebuf_getc must refuse.
MustExitAt(p) ==
  \/ ByteAt(p) \in 128..191
  \/ ByteAt(p) >= 248
  \/ \E k \in 1..3 : k <= Continuations(ByteAt(p)) /\ ByteAt(p + k) \notin 128..191
  \/ /\ Continuations(ByteAt(p)) < 4
     /\ \A k \in 1..3 : k <= Continuations(ByteAt(p)) => ByteAt(p + k) \in 128..191
     /\ \/ CodePointAt(p) = 127
        \/ CodePointAt(p) < 7
        \/ CodePointAt(p) = 8
        \/ CodePointAt(p) \in 14..31

\* C20: a filebuf_getc that reads from the file (nothing saved, not at the
\* end) exits exactly when the lead byte is a continuation byte or 0xF8 and
\* above, a continuation byte is missing or malformed, or the code point is
\* 0x7F, below 0x07, 0x08 or in 0x0E..0x1F; otherwise it returns the code
\* point.
GetcExitsExactly ==
  \A i \in 1..Len(hist) :
    hist[i].call = "getc" /\ hist[i].saved = 0 /\ ByteAt(hist[i].pos) # EOF =>
      /\ hist[i].exit <=> MustExitAt(hist[i].pos)
      /\ ~hist[i].exit => hist[i].ch = CodePointAt(hist[i].pos)

\* A character above 0xFF was read and returned, and a later read exited.
GetcExitsExactlyWitness ==
  /\ mainpc.status = "exit"
  /\ hist[Len(hist)].exit
  /\ \E i \in 1..(Len(hist) - 1) :
       hist[i].call = "getc" /\ hist[i].saved = 0 /\ hist[i].ch > 255

(***************************************************************************)
(* find_public on its own: the tree holds function a, whose description    *)
(* is drawn from PublicDescs, followed by function b with a plain          *)
(* description; the writers' loop                                          *)
(*   for (n = find_public(doc, doc, e, NULL, mode); n;                     *)
(*        n = find_public(n, doc, e, NULL, mode))                          *)
(* is run in one output mode.  hist holds the nodes returned so far.       *)
(***************************************************************************)

OutputModes == {"OUTPUT_NONE", "OUTPUT_HTML", "OUTPUT_XML", "OUTPUT_MAN", "OUTPUT_EPUB"}

\* s[p] of a C string whose first character is s[1]; 0 at the end.
CharAt(s, p) == IF p <= Len(s) THEN s[p] ELSE 0

\* !strncmp(s + p, w, strlen(w))
AtWord(s, p, w) == HasPrefix(From(s, p), w)

\* strstr(s, w) - s, counted from 1, when w occurs in s.
StrIndex(s, w) == CHOOSE i \in 1..Len(s) : AtWord(s, i, w) /\ \A j \in 1..(i - 1) : ~AtWord(s, j, w)

\* A comment that hides its node only by @private@.
CommentHidesPrivateOnly(s, mode) == StrStr(s, S_private)

RECURSIVE ExcludeList(_, _, _)
\* while (*exclude != '@') over the format list: where exclude points when
\* the loop is left.
ExcludeList(s, p, mode) ==
  IF CharAt(s, p) = Chr("@") THEN p
  ELSE LET q == IF AtWord(s, p, Str("docset")) THEN p + 6
                ELSE IF AtWord(s, p, Str("epub"))
                THEN IF mode = "OUTPUT_EPUB" THEN 0 ELSE p + 4
                ELSE IF AtWord(s, p, Str("html"))
                THEN IF mode = "OUTPUT_HTML" THEN 0 ELSE p + 4
                ELSE IF AtWord(s, p, Str("man"))
                THEN IF mode = "OUTPUT_MAN" THEN 0 ELSE p + 3
                ELSE IF AtWord(s, p, Str("tokens")) THEN p + 6
                ELSE IF AtWord(s, p, Str("xml"))
                THEN IF mode = "OUTPUT_XML" THEN 0 ELSE p + 3
                ELSE 0
       IN  IF q = 0 THEN p
           ELSE IF CharAt(s, q) = Chr(",") THEN ExcludeList(s, q + 1, mode)
           ELSE q

\* The loop over the children of a description is left early (break) at
\* the comment s: @private@, @exclude all@, or a format list that is not
\* walked to its closing @.
CommentHides(s, mode) ==
  \/ StrStr(s, S_private)
  \/ /\ StrStr(s, Str("@exclude "))
     /\ \/ AtWord(s, StrIndex(s, Str("@exclude ")) + 9, Str("all@"))
        \/ CharAt(s, ExcludeList(s, StrIndex(s, Str("@exclude ")) + 9, mode)) # Chr("@")

\* The children of top that mxmlFindElement visits from node on: all of
\* them when node is top, else those after node.
PublicCandidates(h, node, top) ==
  IF node = top THEN h[top].kids
  ELSE SubSeq(h[top].kids, IndexOf(h[top].kids, node) + 1, Len(h[top].kids))

\* The candidate is returned: it has the element name (and the name, when
\* one is asked for), a description, and no comment that hides it.
IsPublic(h, n, element, name, mode) ==
  /\ h[n].elem = element
  /\ name # None => h[n].name = name
  /\ FindChild(h, n, "description") # 0
  /\ \A k \in 1..Len(h[FindChild(h, n, "description")].opq) :
       ~CommentHides(h[FindChild(h, n, "description")].opq[k], mode)

\* find_public(node, top, element, name, mode): the node found, or 0.
find_public(h, node, top, element, name, mode) ==
  LET ks == PublicCandidates(h, node, top)
      hit == {i \in 1..Len(ks) : IsPublic(h, ks[i], element, name, mode)}
  IN  IF hit = {} THEN 0
      ELSE ks[CHOOSE i \in hit : \A j \in hit : i <= j]

PublicFormats == {Str("epub"), Str("html"), Str("man"), Str("xml")}

\* The lists of one to four different formats.
PublicLists ==
  {l \in UNION {[1..n -> PublicFormats] : n \in 1..4} :
     \A i, j \in 1..Len(l) : i # j => l[i] # l[j]}

RECURSIVE CommaList(_)
CommaList(l) ==
  IF Len(l) = 1 THEN l[1] ELSE l[1] \o Str(",") \o CommaList(Tail(l))

\* What function a is described with: nothing, a description without a
\* comment, or a comment.
PublicDescs ==
  {[kind |-> k, list |-> <<>>, text |-> Str("")] : k \in {"missing", "empty", "text"}}
  \cup {[kind |-> "text", list |-> <<>>, text |-> Str("Does X.")]}
  \cup {[kind |-> "private", list |-> <<>>, text |-> lead \o Str("@private@")] :
          lead \in {Str(""), Str("Does X. ")}}
  \cup {[kind |-> "all", list |-> <<>>, text |-> lead \o Str("@exclude all@")] :
          lead \in {Str(""), Str("Does X. ")}}
  \cup {[kind |-> "exclude", list |-> l,
         text |-> lead \o Str("@exclude ") \o CommaList(l) \o Str("@")] :
          l \in PublicLists, lead \in {Str(""), Str("Does X. ")}}

\* The two functions: a is node 2, b follows it.
PublicTree(d) ==
  LET h1 == mxmlNewElement(new_documentation, RootId, "function")
      h2 == [h1 EXCEPT ![2].name = <<Str("a")>>]
      h3 == IF d.kind = "missing" THEN h2
            ELSE IF d.kind = "empty" THEN TakeComment(h2, <<>>, 2).heap
            ELSE TakeComment(h2, <<d.text>>, 2).heap
      h4 == mxmlNewElement(h3, RootId, "function")
      h5 == [h4 EXCEPT ![Len(h4)].name = <<Str("b")>>]
  IN  TakeComment(h5, <<Str("Plain.")>>, Len(h5)).heap

InitPublic ==
  /\ \E d \in PublicDescs, mode \in OutputModes :
       /\ heap = PublicTree(d)
       /\ mainpc = [status |-> "public", i |-> RootId, argv |-> <<d, mode>>]
  /\ file = filebuf_open(<<>>)
  /\ stack = <<>>
  /\ body = <<>>
  /\ hist = <<>>
  /\ sortlog = <<>>

\* One find_public call of the loop returns a node.
FindPublic ==
  /\ mainpc.status = "public"
  /\ find_public(heap, mainpc.i, RootId, "function", None, mainpc.argv[2]) # 0
  /\ hist' = Append(hist, find_public(heap, mainpc.i, RootId, "function", None, mainpc.argv[2]))
  /\ mainpc' = [mainpc EXCEPT !.i = find_public(heap, mainpc.i, RootId, "function", None, mainpc.argv[2])]
  /\ UNCHANGED <<heap, file, stack, body, sortlog>>

\* find_public returns NULL and the loop ends.
FindPublicEnd ==
  /\ mainpc.status = "public"
  /\ find_public(heap, mainpc.i, RootId, "function", None, mainpc.argv[2]) = 0
  /\ mainpc' = [mainpc EXCEPT !.status = "found"]
  /\ UNCHANGED <<heap, file, stack, body, hist, sortlog>>

NextPublic == FindPublic \/ FindPublicEnd

SpecPublic == InitPublic /\ [][NextPublic]_vars

\* The format name of an output mode.
FormatName(mode) ==
  IF mode = "OUTPUT_EPUB" THEN Str("epub")
  ELSE IF mode = "OUTPUT_HTML" THEN Str("html")
  ELSE IF mode = "OUTPUT_MAN" THEN Str("man")
  ELSE IF mode = "OUTPUT_XML" THEN Str("xml")
  ELSE Str("")

\* Function a was returned by the finished loop.
FoundA == \E i \in 1..Len(hist) : hist[i] = 2

\* C14: when the loop has ended, a function described with @exclude L@ was
\* skipped exactly when the format of the output mode is in L; one described
\* with @exclude all@ or @private@ was skipped in every mode.
ExcludedByFormat ==
  mainpc.status = "found" =>
    /\ mainpc.argv[1].kind = "exclude" =>
         (~FoundA <=> \E k \in 1..Len(mainpc.argv[1].list) :
                        mainpc.argv[1].list[k] = FormatName(mainpc.argv[2]))
    /\ mainpc.argv[1].kind \in {"all", "private"} => ~FoundA

\* A function is skipped for the second format of its list, and the loop
\* went on to return the function after it.
ExcludedByFormatWitness ==
  /\ mainpc.status = "found"
  /\ mainpc.argv[1].kind = "exclude"
  /\ Len(mainpc.argv[1].list) >= 2
  /\ mainpc.argv[1].list[2] = FormatName(mainpc.argv[2])
  /\ ~FoundA
  /\ hist # <<>>

\* C15: every node find_public returns has a description with text in it.
NoEmptyDescriptionFound ==
  \A i \in 1..Len(hist) :
    /\ FindChild(heap, hist[i], "description") # 0
    /\ heap[FindChild(heap, hist[i], "description")].opq # <<>>
    /\ \E k \in 1..Len(heap[FindChild(heap, hist[i], "description")].opq) :
         heap[FindChild(heap, hist[i], "description")].opq[k] # <<>>

\* The part of C15 that holds: a node without a description is not returned.
NoMissingDescriptionFound ==
  \A i \in 1..Len(hist) : FindChild(heap, hist[i], "description") # 0

(***************************************************************************)
(* Where a finished comment goes                                           *)
(***************************************************************************)

\* This step of scan_file finishes a comment: the state goes from a comment
\* state back to STATE_NONE.
CommentCloses ==
  /\ mainpc.status = "scan"
  /\ mainpc'.status = "scan"
  /\ stack # <<>>
  /\ Len(stack') = Len(stack)
  /\ Top.state \in {"C_COMMENT", "CXX_COMMENT"}
  /\ stack'[Len(stack')].state = "NONE"

\* The target the stated priority gives for a comment that closes in frame fr.
CommentTarget(fr) ==
  IF fr.variable # 0 THEN "variable"
  ELSE IF fr.constant # 0 THEN "constant"
  ELSE IF fr.typedefnode # 0 THEN "typedef"
  ELSE IF heap[fr.tree].elem # "codedoc" /\ FindChild(heap, fr.tree, "description") = 0
  THEN "container"
  ELSE "buffer"

\* Node n gets a new description in this step.
Described(n) ==
  \E id \in (Len(heap) + 1)..Len(heap') :
    heap'[id].elem = "description" /\ heap'[id].parent = n

\* Node n receives the comment: a new description, or its removal when the
\* comment says @private@.
Given(n) == heap'[n].elem = "FREE" \/ Described(n)

\* Every node made in this step is made under a node of S.
NewOnly(S) == \A id \in (Len(heap) + 1)..Len(heap') : heap'[id].parent \in S

\* The pending comments of fr2 are those of fr (less the oldest, at most)
\* and one more.
Buffered(fr, fr2) ==
  /\ fr2.comment # <<>>
  /\ \/ SubSeq(fr2.comment, 1, Len(fr2.comment) - 1) = fr.comment
     \/ fr.comment # <<>> /\ SubSeq(fr2.comment, 1, Len(fr2.comment) - 1) = Tail(fr.comment)

\* A step that finishes a comment gives it to the target of the priority;
\* with bodyToo, a comment that begins with @body@ and has no other target
\* may go to the body text instead of the pending comments.
TargetStep(bodyToo) ==
  CommentCloses =>
    /\ CommentTarget(Top) = "variable" =>
         /\ Given(Top.variable)
         /\ stack'[Len(stack')].variable = 0
         /\ NewOnly({Top.variable})
         /\ stack'[Len(stack')].constant = Top.constant
         /\ stack'[Len(stack')].typedefnode = Top.typedefnode
    /\ CommentTarget(Top) = "constant" =>
         /\ Given(Top.constant)
         /\ stack'[Len(stack')].constant = 0
         /\ NewOnly({Top.constant})
         /\ stack'[Len(stack')].typedefnode = Top.typedefnode
    /\ CommentTarget(Top) = "typedef" =>
         /\ Given(Top.typedefnode)
         /\ stack'[Len(stack')].typedefnode = 0
         /\ Top.structclass # 0 => Given(Top.structclass)
         /\ Top.structclass = 0 /\ Top.enumeration # 0 => Given(Top.enumeration)
         /\ NewOnly({Top.typedefnode, Top.structclass, Top.enumeration})
    /\ CommentTarget(Top) = "container" =>
         /\ Described(Top.tree)
         /\ NewOnly({Top.tree})
    /\ CommentTarget(Top) = "buffer" =>
         /\ heap' = heap
         /\ \/ body' = body /\ Buffered(Top, stack'[Len(stack')])
            \/ /\ bodyToo
               /\ HasPrefix(Top.buffer, S_body)
               /\ body' # body
               /\ stack'[Len(stack')].comment \in {Top.comment, DropFirst(Top.comment)}

NamespaceQualifiesAll ==
  \A d \in NamespaceDecls :
    IsRun(d.text) =>
      \A k \in 1..Len(heap[RootId].kids) :
        /\ heap[heap[RootId].kids[k]].name # None
        /\ HasPrefix(heap[heap[RootId].kids[k]].name[1], Str("NS::"))

\* The kinds of declaration for which the names are qualified: all but the
\* function-pointer typedef.
NamespaceQualifiesMost ==
  \A d \in NamespaceDecls :
    IsRun(d.text) /\ d.kind # "fptypedef" =>
      \A k \in 1..Len(heap[RootId].kids) :
        /\ heap[heap[RootId].kids[k]].name # None
        /\ HasPrefix(heap[heap[RootId].kids[k]].name[1], Str("NS::"))

(***************************************************************************)
(* The ')' that closes a parameter list                                    *)
(***************************************************************************)

\* This step of scan_file reads a ')' that brings the parenthesis depth to
\* 0 while a function is pending and a list of type tokens is active.
ClosesParameters ==
  /\ mainpc.status = "scan"
  /\ stack # <<>>
  /\ Len(stack') = Len(stack)
  /\ Top.state = "NONE"
  /\ Top.function # 0
  /\ Top.type # None
  /\ Top.parens = 1
  /\ stack'[Len(stack')].parens = 0

\* C22: the ')' that brings the depth to 0 with a function pending and type
\* tokens active leaves no type tokens pending.
CloseParenFinalizes ==
  [][ClosesParameters => stack'[Len(stack')].type = None]_vars

(***************************************************************************)
(* The constants of an enumeration                                         *)
(***************************************************************************)

\* C23: the constants of enumeration e are the identifiers A and B between
\* its braces and never an identifier scanned after its closing brace.
NoLateConstants ==
  \A d \in EnumThenBody :
    IsRun(d.text) =>
      \A id \in 1..Len(heap) :
        heap[id].elem = "constant" => heap[id].name \in {<<Str("A")>>, <<Str("B")>>}

\* The part of C23 that holds: an enumeration that is not in a typedef gets
\* no constant after its closing brace.
NoLateConstantsPlain ==
  \A d \in EnumThenBody :
    IsRun(d.text) /\ ~d.typedef =>
      \A id \in 1..Len(heap) :
        heap[id].elem = "constant" => heap[id].name \in {<<Str("A")>>, <<Str("B")>>}

(***************************************************************************)
(* The scope of the members of a class                                     *)
(***************************************************************************)

\* C24: every function and variable in the tree has the scope of the last
\* label before it in its own class body (private when there is none), and
\* no scope in a struct or union body or at file scope.
MemberScope ==
  \A d \in ScopedMembers :
    IsRun(d.text) =>
      \A id \in 1..Len(heap) :
        (heap[id].elem \in {"function", "variable"} /\ heap[id].parent # 0) =>
          \E m \in d.members : heap[id].name = <<m.name>> /\ heap[id].scope = m.scope

\* The class with a nested class has been scanned: y has the scope of the
\* label of the outer body, x the default scope of the inner body.
MemberScopeWitness ==
  /\ Len(hist) >= 1
  /\ IsRun(Str("class C { public: class D { int x; protected: int z; }; int y; };"))
  /\ \E id \in 1..Len(heap) : heap[id].name = <<Str("y")>> /\ heap[id].scope = <<"public">>
  /\ \E id \in 1..Len(heap) : heap[id].name = <<Str("x")>> /\ heap[id].scope = <<"private">>

(***************************************************************************)
(* The parent attribute of a class                                         *)
(***************************************************************************)

\* C25: the parent attribute of class D holds every token after the name D,
\* with single spaces, so it ends with the base class name B.
BaseInParent ==
  \A d \in BaseSpecs :
    IsRun(d.text) =>
      \A id \in 1..Len(heap) :
        heap[id].elem = "class" => heap[id].parentattr = <<d.parent>>

\* The part of C25 that holds: the attribute is set and begins with the
\* first token after the name.
BaseParentStarts ==
  \A d \in BaseSpecs :
    IsRun(d.text) =>
      \A id \in 1..Len(heap) :
        heap[id].elem = "class" =>
          heap[id].parentattr # None /\ HasPrefix(d.parent, heap[id].parentattr[1])

(***************************************************************************)
(* The brace counter around a nested scan_file call                        *)
(***************************************************************************)

\* This step reads the '}' at which a nested scan_file call returns to the
\* invocation that made it.
NestedReturns ==
  /\ mainpc.status = "scan"
  /\ Len(stack) >= 2
  /\ Len(stack') = Len(stack) - 1
  /\ Top.state = "NONE"
  /\ Got.ch = Chr("}")

\* C26: when a nested call returns at its '}', the brace counter of the
\* invocation that made the call is what it was before the '{'.
BracesRestored ==
  [][NestedReturns => stack'[Len(stack')].braces = stack[Len(stack) - 1].braces]_vars

\* The part of C26 that holds: after a namespace body and after a struct
\* body the declaration that follows is scanned into the tree.
FollowerScanned ==
  \A d \in NestedBlocks :
    (IsRun(d.text) /\ d.kind # "extern" /\ Len(hist) >= 1) =>
      KidsNamed(hist[1], "variable", Str("w")) # <<>>

(***************************************************************************)
(* A comment that became the description of a pending node                 *)
(***************************************************************************)

\* C27: a comment that became the description of the pending variable,
\* constant or typedef is not kept as a pending comment, so the function
\* that follows gets no description from it.
CommentDeliveredOnce ==
  \A d \in TrailingComments :
    IsRun(d.text) =>
      \A t \in Scanned :
        \A k \in 1..Len(t.kids) :
          t.kids[k].elem = "function" => DescriptionTexts(t.kids[k]) = {}

\* The part of C27 that holds: the comment of a constant is dropped from
\* the pending comments at the '}' that closes the enumeration.
ConstantCommentDropped ==
  \A d \in TrailingComments :
    (IsRun(d.text) /\ d.kind = "constant") =>
      \A t \in Scanned :
        \A k \in 1..Len(t.kids) :
          t.kids[k].elem = "function" => DescriptionTexts(t.kids[k]) = {}

(***************************************************************************)
(* The return of the file-level scan_file call                             *)
(***************************************************************************)

\* This step is the return of the scan_file call made by main.
FileLevelReturns ==
  /\ mainpc.status = "scan"
  /\ Len(stack) = 1
  /\ stack' = <<>>

\* C28: the scan_file call made by main returns only at the end of the
\* input; a '}' read at file level with no open brace does not end the scan.
ReturnsOnlyAtEOF == [][FileLevelReturns => Got.ch = EOF]_vars

\* What does hold: a nested scan_file call is the only one that a '}' is
\* meant to end, and main's call ends at EOF or at a '}' read with no open
\* brace.
ReturnsAtEOFOrBrace ==
  [][FileLevelReturns =>
       \/ Got.ch = EOF
       \/ Top.state = "NONE" /\ Got.ch = Chr("}") /\ Top.braces = 0]_vars

(***************************************************************************)
(* Termination of scan_file                                                *)
(***************************************************************************)

\* The input that filebuf_getc has still to deliver: the bytes not yet read
\* and the characters that were pushed back.  A pushed-back EOF is not input.
Unread(f) ==
  (Len(f.data) - f.pos)
    + (IF f.ch = 0 \/ f.ch = EOF THEN 0 ELSE IF f.ch > 256 THEN 2 ELSE 1)

\* main has left its loop over the files, or the program has ended.
Ended == mainpc.status \in {"done", "exit", "crash"}

\* C29 as stated: every iteration of the loops of scan_file consumes input
\* that is not delivered again by pushback, or reaches EOF.
EveryIterationConsumes ==
  [][mainpc.status = "scan" =>
       \/ Unread(file') < Unread(file)
       \/ Got.ch = EOF
       \/ Got.exit]_vars

\* C29: scan_file terminates on every finite input.  No iteration adds to the
\* unread input, and the one that leaves it as it was is the iteration that
\* ends an identifier: it pushes back the character it read and goes to the
\* state NONE, where that character is consumed.
ScanTerminates ==
  /\ <>Ended
  /\ [][(mainpc.status = "scan" /\ ~Got.exit /\ Got.ch # EOF) =>
          /\ Unread(file') <= Unread(file)
          /\ Unread(file') = Unread(file) =>
               /\ Top.state = "IDENTIFIER"
               /\ Len(stack') = Len(stack)
               /\ stack'[Len(stack')].state = "NONE"]_vars

\* The scan of an input that ends where the code reads ahead has ended, with
\* one tree saved for each scan of it.
ScanTerminatesWitness ==
  /\ mainpc.status = "done"
  /\ mainpc.argv[1] \in ReadAheadAtEOF
  /\ Len(hist) = Len(mainpc.argv)

(***************************************************************************)
(* stringbuf_t on its own: the buffer of a scan_file invocation, empty or  *)
(* filled to within BufSlack bytes of its end, takes up to MaxBufCalls     *)
(* calls of stringbuf_append and stringbuf_clear.                          *)
(***************************************************************************)
MaxBufCalls == 3

BufSlack == 5

\* One character for each length of UTF-8 encoding: A, e-acute, the euro
\* sign and U+1F600.
BufChars == {65, 233, 8364, 128512}

BufStarts ==
  {<<>>} \cup {[i \in 1..n |-> 97] : n \in (StringBufSize - 1 - BufSlack)..(StringBufSize - 1)}

InitBuf ==
  /\ \E b \in BufStarts :
       stack = <<[NewFrame(new_documentation, RootId, None, "main") EXCEPT !.buffer = b]>>
  /\ mainpc = [status |-> "buffer", i |-> 0, argv |-> <<>>]
  /\ heap = new_documentation
  /\ file = filebuf_open(<<>>)
  /\ body = <<>>
  /\ hist = <<>>
  /\ sortlog = <<>>

\* stringbuf_append(&buffer, ch)
BufAppend ==
  /\ mainpc.status = "buffer"
  /\ Len(hist) < MaxBufCalls
  /\ \E ch \in BufChars :
       \E r \in {stringbuf_append(Top.buffer, ch)} :
         /\ stack' = [stack EXCEPT ![1].buffer = r.buf]
         /\ hist' = Append(hist, [call |-> "append", ch |-> ch, ok |-> r.ok,
                                  before |-> Len(Top.buffer),
                                  kept |-> Len(r.buf) >= Len(Top.buffer)
                                             /\ SubSeq(r.buf, 1, Len(Top.buffer)) = Top.buffer,
                                  added |-> SubSeq(r.buf, Len(Top.buffer) + 1, Len(r.buf))])
  /\ UNCHANGED <<heap, file, mainpc, body, sortlog>>

\* stringbuf_clear(&buffer)
BufClear ==
  /\ mainpc.status = "buffer"
  /\ Len(hist) < MaxBufCalls
  /\ stack' = [stack EXCEPT ![1].buffer = stringbuf_clear]
  /\ hist' = Append(hist, [call |-> "clear", ch |-> 0, ok |-> 1, before |-> Len(Top.buffer),
                           kept |-> Top.buffer = <<>>, added |-> <<>>])
  /\ UNCHANGED <<heap, file, mainpc, body, sortlog>>

NextBuf == BufAppend \/ BufClear

SpecBuf == InitBuf /\ [][NextBuf]_vars

\* The UTF-8 encoding of a code point, by the bit layout of each length.
Utf8(ch) ==
  IF ch < 128 THEN <<ch>>
  ELSE IF ch < 2048 THEN <<192 + (ch \div 64), 128 + (ch % 64)>>
  ELSE IF ch < 65536
  THEN <<224 + (ch \div 4096), 128 + ((ch \div 64) % 64), 128 + (ch % 64)>>
  ELSE <<240 + (ch \div 262144), 128 + ((ch \div 4096) % 64), 128 + ((ch \div 64) % 64),
         128 + (ch % 64)>>

\* C30: the length of the buffer never exceeds 65535, so the terminator that
\* stringbuf_get writes at that offset is inside the buffer; an append whose
\* whole encoding does not fit below that limit returns 0 and changes
\* nothing, any other append adds all the bytes of the encoding and returns 1.
BufferNeverOverflows ==
  mainpc.status = "buffer" =>
    /\ stringbuf_length(Top.buffer) <= StringBufSize - 1
    /\ \A k \in 1..Len(hist) :
         hist[k].call = "append" =>
           /\ hist[k].kept
           /\ IF hist[k].before + Len(Utf8(hist[k].ch)) <= StringBufSize - 1
              THEN hist[k].ok = 1 /\ hist[k].added = Utf8(hist[k].ch)
              ELSE hist[k].ok = 0 /\ hist[k].added = <<>>

\* An append of several bytes filled the buffer to its last usable byte, and
\* a later append of several bytes was refused.
BufferNeverOverflowsWitness ==
  /\ mainpc.status = "buffer"
  /\ stringbuf_length(Top.buffer) = StringBufSize - 1
  /\ \E j, k \in 1..Len(hist) :
       /\ j < k
       /\ hist[j].call = "append" /\ hist[j].ok = 1 /\ Len(hist[j].added) > 1
       /\ hist[k].call = "append" /\ hist[k].ok = 0 /\ hist[k].ch >= 128
====
